---- MODULE Spec2Model ----
(***************************************************************************)
(* BudgetBuddy: statement import (parsers.py, pdf_utils.py), fingerprint   *)
(* deduplication at the SQLite store (db.py), and the rule engine          *)
(* (categorizer.py), as driven by the Upload and Categorize pages (app.py).*)
(*                                                                         *)
(* Text is modelled as TLA+ strings; characters are read with SubSeq.      *)
(***************************************************************************)
EXTENDS Integers, Sequences, FiniteSets, Bags, TLC

VARIABLES
    hrows,         \* SpecHash: the frame handed to compute_hashes
    hashes,        \* SpecHash: its raw_hash column
    rules,         \* the rules table of one user, in insertion (id) order
    arg_rules,     \* the user_rules list last passed to apply_rules
    month_df,      \* the month's frame last passed to apply_rules
    result,        \* what that apply_rules call gave back
    transactions,  \* the transactions table: a bag of committed rows
    wlock,         \* the session whose connection holds the SQLite write lock
    user_id,       \* st.session_state["user_id"] of each browser session
    pc,            \* where each session's script run stands
    left,          \* how many files of files_up the loop has still to import
    f_name,        \* f.name of the file the loop is at
    rows,          \* the records handed to insert_transactions
    idx,           \* the record the insert loop stands at
    inserted,      \* insert_transactions' counter
    skipped,       \* insert_transactions' counter
    added,         \* rows INSERTed by the call (uncommitted until the commit)
    total_ins,     \* the Upload page's running total
    total_skip,    \* the Upload page's running total
    error,         \* the exception that ended the script run
    again,         \* the file at hand is the one this session imported last
    overlapped,    \* another session's insert call was open during this one
    last_file,     \* the file whose import pass this session ended last
    base,          \* rows the user had stored when the session's upload began
    fn,            \* SpecParse: the function of the pipeline under call
    arg,           \* SpecParse: what it was called with
    ret,           \* SpecParse: what it gave back
    call_pc,       \* SpecParse: where the call stands
    pdf_dfs,       \* parse_pdf_statement: the frames extract_tables_pdf gave
    pdf_lines,     \* parse_pdf_statement: the lines ocr_lines_from_pdf gave
    ocr_runs,      \* how often the call has entered the OCR stage
    budgets,       \* the budgets table
    incomes        \* the incomes table

hashVars == <<hrows, hashes>>
ruleVars == <<rules, arg_rules, month_df, result>>
storeVars == <<transactions, wlock>>
uploadVars == <<user_id, pc, left, f_name, rows, idx, inserted, skipped, added,
                total_ins, total_skip, error, again, overlapped, last_file, base>>
parseVars == <<fn, arg, ret, call_pc, pdf_dfs, pdf_lines, ocr_runs>>
bookVars == <<budgets, incomes>>
vars == <<hashVars, ruleVars, storeVars, uploadVars, parseVars, bookVars>>

(***************************************************************************)
(* Text helpers                                                            *)
(***************************************************************************)
Char(s, i) == SubSeq(s, i, i)

\* str.replace(old, new) for a one-character old
RECURSIVE Replace(_, _, _)
Replace(s, old, new) ==
    IF s = "" THEN ""
    ELSE (IF Char(s, 1) = old THEN new ELSE Char(s, 1))
         \o Replace(SubSeq(s, 2, Len(s)), old, new)

\* str.strip() of blanks
RECURSIVE Strip(_)
Strip(s) ==
    IF s = "" THEN ""
    ELSE IF Char(s, 1) = " " THEN Strip(SubSeq(s, 2, Len(s)))
    ELSE IF Char(s, Len(s)) = " " THEN Strip(SubSeq(s, 1, Len(s) - 1))
    ELSE s

DigitChars == "0123456789"
IsDigit(c) == \E d \in 1..10 : Char(DigitChars, d) = c
DigitVal(c) == (CHOOSE d \in 1..10 : Char(DigitChars, d) = c) - 1
AllDigits(s) == \A i \in 1..Len(s) : IsDigit(Char(s, i))

RECURSIVE ToInt(_)
ToInt(s) == IF s = "" THEN 0
            ELSE 10 * ToInt(SubSeq(s, 1, Len(s) - 1)) + DigitVal(Char(s, Len(s)))

RECURSIVE Pow10(_)
Pow10(n) == IF n = 0 THEN 1 ELSE 10 * Pow10(n - 1)

RECURSIVE IntStr(_)
IntStr(n) == IF n < 10 THEN Char(DigitChars, n + 1)
             ELSE IntStr(n \div 10) \o Char(DigitChars, (n % 10) + 1)

\* n written with at least w digits, zero-padded on the left
RECURSIVE Pad(_, _)
Pad(n, w) == IF Len(IntStr(n)) >= w THEN IntStr(n)
             ELSE "0" \o (IF w > 1 THEN Pad(n, w - 1) ELSE "")

IndexOf(s, c) ==
    IF \E i \in 1..Len(s) : Char(s, i) = c
    THEN CHOOSE i \in 1..Len(s) : Char(s, i) = c /\ \A j \in 1..(i - 1) : Char(s, j) /= c
    ELSE 0

(***************************************************************************)
(* Values of the amount column.  A float is m / 10^e with trailing zeros   *)
(* of the fraction removed, so equal floats are equal values; NaN is       *)
(* numpy.nan and NoneVal is Python's None.                                 *)
(***************************************************************************)
NaN == [k |-> "nan", m |-> 0, e |-> 0]
NoneVal == [k |-> "None", m |-> 0, e |-> 0]
ValueError == [k |-> "ValueError", m |-> 0, e |-> 0]

RECURSIVE Norm(_, _)
Norm(m, e) == IF e > 0 /\ m % 10 = 0 THEN Norm(m \div 10, e - 1)
              ELSE [k |-> "float", m |-> m, e |-> e]

\* float(s) for a str s: optional sign, digits with at most one '.', at least
\* one digit.  (Exponents, 'inf', 'nan' and '_' use characters outside the
\* alphabet of the modelled cells.)  ValueError when s is not a number.
PyFloat(s0) ==
    LET s    == Strip(s0)
        neg  == s /= "" /\ Char(s, 1) = "-"
        sgn  == s /= "" /\ Char(s, 1) \in {"-", "+"}
        body == IF sgn THEN SubSeq(s, 2, Len(s)) ELSE s
        dot  == IndexOf(body, ".")
        ip   == IF dot = 0 THEN body ELSE SubSeq(body, 1, dot - 1)
        fp   == IF dot = 0 THEN "" ELSE SubSeq(body, dot + 1, Len(body))
        mag  == Norm(ToInt(ip \o fp), Len(fp))
    IN  IF AllDigits(ip) /\ AllDigits(fp) /\ Len(ip) + Len(fp) >= 1
        THEN (IF neg THEN [mag EXCEPT !.m = 0 - mag.m] ELSE mag)
        ELSE ValueError

_normalize_amount(x) ==
    LET s == Replace(Replace(Replace(x, "€", ""), ",", "."), " ", "")
    IN  IF PyFloat(s) = ValueError THEN NaN ELSE PyFloat(s)

\* (a fault: the PDF rule without the removal of the thousands separators)
_clean_amount_CommaOnly(x) ==
    LET s1 == Replace(Replace(Strip(x), "€", ""), " ", "")
        s2 == Replace(s1, ",", ".")
    IN  IF PyFloat(s2) = ValueError THEN NoneVal ELSE PyFloat(s2)

_clean_amount(x) ==
    LET s1 == Replace(Replace(Strip(x), "€", ""), " ", "")
        s2 == Replace(Replace(s1, ".", ""), ",", ".")
    IN  IF PyFloat(s2) = ValueError THEN NoneVal ELSE PyFloat(s2)

\* str() of an amount value, as _hash_row renders it
AmountStr(a) ==
    IF a.k = "nan" THEN "nan"
    ELSE IF a.k = "None" THEN "None"
    ELSE LET mag == IF a.m < 0 THEN 0 - a.m ELSE a.m
         IN  (IF a.m < 0 THEN "-" ELSE "")
             \o IntStr(mag \div Pow10(a.e)) \o "."
             \o (IF a.e = 0 THEN "0" ELSE Pad(mag % Pow10(a.e), a.e))

(***************************************************************************)
(* Dates.  dateutil's parse() on the shapes the modelled cells use: three  *)
(* digit groups separated by '.', '/' or '-'.  Any other text of the       *)
(* modelled cells (letters, the empty string) is "not a date".  Shapes     *)
(* dateutil completes from today's date are outside the modelled cells.    *)
(***************************************************************************)
ParserError == [k |-> "ParserError", y |-> 0, mo |-> 0, d |-> 0]
NoDate == [k |-> "None", y |-> 0, mo |-> 0, d |-> 0]

IsDateSep(c) == c \in {".", "/", "-"}

FirstSep(s) ==
    IF \E i \in 1..Len(s) : IsDateSep(Char(s, i))
    THEN CHOOSE i \in 1..Len(s) :
            IsDateSep(Char(s, i)) /\ \A j \in 1..(i - 1) : ~IsDateSep(Char(s, j))
    ELSE 0

IsLeap(y) == (y % 4 = 0 /\ y % 100 /= 0) \/ y % 400 = 0
DaysIn(mo, y) == IF mo = 2 THEN (IF IsLeap(y) THEN 29 ELSE 28)
                 ELSE IF mo \in {4, 6, 9, 11} THEN 30 ELSE 31

\* two-digit years are taken in the current century
ConvertYear(g, text) == IF Len(text) <= 2 THEN 2000 + g ELSE g

MkDate(y, mo, d) ==
    IF mo \in 1..12 /\ d >= 1 /\ d <= DaysIn(mo, y) /\ y >= 1
    THEN [k |-> "date", y |-> y, mo |-> mo, d |-> d]
    ELSE ParserError

dparser_parse(s0, dayfirst) ==
    LET s  == Strip(s0)
        i1 == FirstSep(s)
        t1 == IF i1 = 0 THEN s ELSE SubSeq(s, 1, i1 - 1)
        r1 == IF i1 = 0 THEN "" ELSE SubSeq(s, i1 + 1, Len(s))
        i2 == FirstSep(r1)
        t2 == IF i2 = 0 THEN r1 ELSE SubSeq(r1, 1, i2 - 1)
        t3 == IF i2 = 0 THEN "" ELSE SubSeq(r1, i2 + 1, Len(r1))
        ok == /\ i1 > 0 /\ i2 > 0
              /\ \A t \in {t1, t2, t3} : Len(t) \in 1..4 /\ AllDigits(t)
        a  == ToInt(t1)
        b  == ToInt(t2)
        c  == ToInt(t3)
    IN  IF ~ok THEN ParserError
        ELSE IF a > 31 \/ Len(t1) > 2
             THEN (IF dayfirst /\ c <= 12
                   THEN MkDate(ConvertYear(a, t1), c, b)
                   ELSE MkDate(ConvertYear(a, t1), b, c))
        ELSE IF a > 12 \/ (dayfirst /\ b <= 12)
             THEN MkDate(ConvertYear(c, t3), b, a)
        ELSE MkDate(ConvertYear(c, t3), a, b)

\* date.isoformat()
IsoDate(dt) == Pad(dt.y, 4) \o "-" \o Pad(dt.mo, 2) \o "-" \o Pad(dt.d, 2)
\* the pandas Timestamp that pd.to_datetime puts in the date column of the
\* CSV mappers
Timestamp(dt) == [k |-> "Timestamp", iso |-> IsoDate(dt)]

\* str() of a date value: str(pd.Timestamp) carries the time of day, the PDF
\* paths hold the isoformat() string itself
DateStr(d) == IF d.k = "Timestamp" THEN d.iso \o " 00:00:00" ELSE d.iso

\* ORDER BY date on the TEXT column: the order of the ISO strings
RECURSIVE TextBefore(_, _)
TextBefore(x, y) ==
    IF y = "" THEN FALSE
    ELSE IF x = "" THEN TRUE
    ELSE IF Char(x, 1) = Char(y, 1) THEN TextBefore(SubSeq(x, 2, Len(x)), SubSeq(y, 2, Len(y)))
    ELSE IF IsDigit(Char(x, 1)) /\ IsDigit(Char(y, 1)) THEN DigitVal(Char(x, 1)) < DigitVal(Char(y, 1))
    ELSE IsDigit(Char(y, 1))
DateBefore(x, y) == TextBefore(x, y)

DateOrNone(dt) == IF dt = ParserError THEN NoDate ELSE [k |-> "str", iso |-> IsoDate(dt)]
_try_parse_date(s) == DateOrNone(dparser_parse(s, TRUE))

(***************************************************************************)
(* Deduplication hasher (parsers.py)                                       *)
(***************************************************************************)
HashFields == <<"date", "account", "merchant", "description",
                "amount", "currency", "type", "source">>

\* str(row.get(k, "")): the text fields are str already, amount is a float
FieldStr(row, k) ==
    IF k = "amount" THEN AmountStr(row[k])
    ELSE IF k = "date" THEN DateStr(row[k])
    ELSE row[k]

RECURSIVE JoinFrom(_, _)
JoinFrom(row, i) ==
    IF i > Len(HashFields) THEN ""
    ELSE (IF i > 1 THEN "|" ELSE "") \o FieldStr(row, HashFields[i]) \o JoinFrom(row, i + 1)

\* "|".join(str(row.get(k, "")) for k in [...])
JoinedFields(row) == JoinFrom(row, 1)

\* hashlib.sha256(s).hexdigest()[:16].  The digest is not computed: it is
\* modelled as an injective tag of the digested string, so two fingerprints
\* are equal exactly when the digested strings are.
Sha256Hex16(s) == "sha256:" \o s

_hash_row(row) == Sha256Hex16(JoinedFields(row))

\* compute_hashes: the raw_hash column of a frame
compute_hashes(frame) == [i \in 1..Len(frame) |-> _hash_row(frame[i])]

(***************************************************************************)
(* SpecHash: compute_hashes on frames of two canonical rows                *)
(***************************************************************************)
HashDates == {[k |-> "Timestamp", iso |-> "2024-03-05"], [k |-> "Timestamp", iso |-> "2024-03-06"]}
HashAccounts == {"Klarna", "Revolut"}
HashMerchants == {"REWE", "REWE|X"}
HashDescriptions == {"REF", "X|REF"}
HashAmounts == {_normalize_amount("1,5"), _normalize_amount("-49,90 €")}
HashCurrencies == {"EUR", "USD"}
HashTypes == {"card", "bnpl"}
HashSources == {"Klarna", "Revolut"}

HashRows ==
    [date: HashDates, account: HashAccounts, merchant: HashMerchants,
     description: HashDescriptions, amount: HashAmounts,
     currency: HashCurrencies, type: HashTypes, source: HashSources]

Sessions == {"s1", "s2"}
NoSession == "none"

\* no function of the pipeline has been called
ParseIdle ==
    /\ fn = ""
    /\ arg = <<>>
    /\ ret = <<>>
    /\ call_pc = "idle"
    /\ pdf_dfs = <<>>
    /\ pdf_lines = <<>>
    /\ ocr_runs = 0

\* no budget and no income has been entered
BooksIdle ==
    /\ budgets = {}
    /\ incomes = <<>>

\* no browser session has run the Upload page and the table is empty
UploadIdle ==
    /\ transactions = EmptyBag
    /\ wlock = NoSession
    /\ user_id = [s \in Sessions |-> "local-default"]
    /\ pc = [s \in Sessions |-> "idle"]
    /\ left = [s \in Sessions |-> 0]
    /\ f_name = [s \in Sessions |-> ""]
    /\ rows = [s \in Sessions |-> <<>>]
    /\ idx = [s \in Sessions |-> 0]
    /\ inserted = [s \in Sessions |-> 0]
    /\ skipped = [s \in Sessions |-> 0]
    /\ added = [s \in Sessions |-> EmptyBag]
    /\ total_ins = [s \in Sessions |-> 0]
    /\ total_skip = [s \in Sessions |-> 0]
    /\ error = [s \in Sessions |-> ""]
    /\ again = [s \in Sessions |-> FALSE]
    /\ overlapped = [s \in Sessions |-> FALSE]
    /\ last_file = [s \in Sessions |-> ""]
    /\ base = [s \in Sessions |-> 0]

RulesIdle ==
    /\ rules = <<>>
    /\ arg_rules = <<>>
    /\ month_df = <<>>
    /\ result = [kind |-> "idle", rows |-> <<>>]

HashInit ==
    /\ hrows \in {<<r1, r2>> : r1 \in HashRows, r2 \in HashRows}
    /\ hashes = <<>>
    /\ RulesIdle
    /\ UploadIdle
    /\ ParseIdle
    /\ BooksIdle

HashFrame ==
    /\ hashes = <<>>
    /\ hashes' = compute_hashes(hrows)
    /\ UNCHANGED <<hrows, ruleVars, storeVars, uploadVars, parseVars, bookVars>>

HashNext == HashFrame

SpecHash == HashInit /\ [][HashNext]_vars

\* C4: two canonical rows get the same fingerprint exactly when all eight
\* fingerprint fields are equal; rows that differ in a field differ in
\* fingerprint, also when field values contain '|'.
C4_FingerprintInjective ==
    hashes /= <<>> =>
        \A i, j \in 1..Len(hrows) :
            (hrows[i] = hrows[j]) <=> (hashes[i] = hashes[j])

\* equal field tuples always give equal fingerprints (the half that holds)
C4_EqualRowsEqualHash ==
    hashes /= <<>> =>
        \A i, j \in 1..Len(hrows) : hrows[i] = hrows[j] => hashes[i] = hashes[j]

(***************************************************************************)
(* Rule engine (categorizer.py).  re.search is modelled for the patterns   *)
(* the rules use: alternatives separated by '|', each a literal in which   *)
(* '.' stands for any character.  A pattern holding another metacharacter  *)
(* is one that re.compile rejects (the modelled ones are "(" and "[").     *)
(***************************************************************************)
LowerChars == "abcdefghijklmnopqrstuvwxyzäöü"
UpperChars == "ABCDEFGHIJKLMNOPQRSTUVWXYZÄÖÜ"
LowerSet == {Char(LowerChars, i) : i \in 1..Len(LowerChars)}
UpperOf == [c \in LowerSet |->
               Char(UpperChars, CHOOSE i \in 1..Len(LowerChars) : Char(LowerChars, i) = c)]

UpperChar(c) == IF c \in LowerSet THEN UpperOf[c] ELSE c

\* str.upper()
RECURSIVE Upper(_)
Upper(s) == IF s = "" THEN "" ELSE UpperChar(Char(s, 1)) \o Upper(SubSeq(s, 2, Len(s)))

RegexMeta == {"(", ")", "[", "]", "*", "+", "?", "{", "}", "\\", "^", "$"}

\* re.error raised when the pattern is compiled
ReError(patt) == \E i \in 1..Len(patt) : Char(patt, i) \in RegexMeta

\* the alternatives of a pattern, in order
RECURSIVE Alternatives(_)
Alternatives(patt) ==
    LET bar == IndexOf(patt, "|")
    IN  IF bar = 0 THEN <<patt>>
        ELSE <<SubSeq(patt, 1, bar - 1)>> \o Alternatives(SubSeq(patt, bar + 1, Len(patt)))

\* The compiled pattern.  flags=re.I on a text that is upper case already:
\* the alternatives are compared in upper case.
Compiled(patt) ==
    LET alts == Alternatives(Upper(patt))
    IN  [a \in 1..Len(alts) |-> [lit |-> alts[a], dotted |-> IndexOf(alts[a], ".") > 0]]

\* alternative alt matches text at position i
MatchAt(alt, text, i) ==
    IF alt.dotted
    THEN \A j \in 1..Len(alt.lit) :
            Char(alt.lit, j) = "." \/ Char(alt.lit, j) = Char(text, i + j - 1)
    ELSE SubSeq(text, i, i + Len(alt.lit) - 1) = alt.lit

\* some alternative of alts is found in text
SearchAlts(alts, text) ==
    \E a \in 1..Len(alts) :
        \E i \in 1..(Len(text) - Len(alts[a].lit) + 1) : MatchAt(alts[a], text, i)

\* re.search(patt, text, flags=re.I) is not None, for a pattern that compiles
\* and a text in upper case
re_search(patt, text) == SearchAlts(Compiled(patt), text)

Rule(patt, field, cat, sub, prio) ==
    [pattern |-> patt, field |-> field, category |-> cat, subcategory |-> sub,
     priority |-> prio]

DEFAULT_RULES == <<
    Rule("REWE|ALDI|LIDL|EDEKA|NETTO|PENNY", "merchant", "Groceries", "", 50),
    Rule("DM |ROSSMANN|MÜLLER", "merchant", "Shopping", "Home", 60),
    Rule("UBER|FREE NOW|TAXI", "merchant", "Transport", "Taxi", 50),
    Rule("BAHNHOF|DB |DEUTSCHE BAHN|VRR|RMV|VBB", "merchant", "Transport", "Public Transport", 50),
    Rule("SPOTIFY|NETFLIX|DISNEY|PRIME VIDEO|YOUTUBE PREMIUM|ICLOUD", "merchant", "Subscriptions", "Streaming", 40),
    Rule("KLARNA", "description", "Fees & Interest", "", 40),
    Rule("APOTHEKE|PHARMACY|DOCTOR|ARZT", "merchant", "Health", "", 60),
    Rule("RENT|MIETE", "description", "Housing", "", 10),
    Rule("VODAFONE|TELEKOM|O2|1&1|UNITYMEDIA", "merchant", "Utilities", "Internet", 40),
    Rule("E.ON|EON|RWE|VATTENFALL|STADTWERKE", "merchant", "Utilities", "Electricity", 40),
    Rule("AMAZON", "merchant", "Shopping", "Other", 70),
    Rule("REWE LIEFERSERVICE|FLINK|GORILLAS|WOLT|LIEFERANDO", "merchant", "Dining & Cafes", "Delivery", 50),
    Rule("RYANAIR|EASYJET|LUFTHANSA|EUROWINGS", "merchant", "Travel", "", 40),
    Rule("GEHALT|SALARY|PAYROLL", "description", "Income", "", 10) >>

\* (a fault: the sort key leaves the priority out)
RuleKeyLeq_IdOnly(a, b) == a.id <= b.id

\* sorted(user_rules, key=lambda r: (r.get("priority", 100), r.get("id", 0))):
\* a stable sort, here by insertion
RuleKeyLeq(a, b) ==
    a.priority < b.priority \/ (a.priority = b.priority /\ a.id <= b.id)

RECURSIVE InsertRule(_, _)
InsertRule(r, sorted) ==
    IF sorted = <<>> THEN <<r>>
    ELSE IF RuleKeyLeq(sorted[Len(sorted)], r) THEN Append(sorted, r)
    ELSE Append(InsertRule(r, SubSeq(sorted, 1, Len(sorted) - 1)), sorted[Len(sorted)])

RECURSIVE SortRulesFrom(_, _, _)
SortRulesFrom(rs, i, acc) ==
    IF i > Len(rs) THEN acc ELSE SortRulesFrom(rs, i + 1, InsertRule(rs[i], acc))

SortedRules(user_rules) == SortRulesFrom(user_rules, 1, <<>>)

\* the text a rule is matched against: text_m for field "merchant", else text_d
RuleText(r, text_m, text_d) == IF r.field = "merchant" THEN text_m ELSE text_d

Returned(cat, sub, src, at) ==
    [kind |-> "return", category |-> cat, subcategory |-> sub, src |-> src, at |-> at]
Raised == [kind |-> "re.error", category |-> "", subcategory |-> "", src |-> "", at |-> 0]

\* the compiled patterns of DEFAULT_RULES (the re module caches them)
DefaultCompiled == [i \in 1..Len(DEFAULT_RULES) |-> Compiled(DEFAULT_RULES[i].pattern)]

DefaultMatches(i, text_m, text_d) ==
    SearchAlts(DefaultCompiled[i], RuleText(DEFAULT_RULES[i], text_m, text_d))

\* (a fault: the defaults visited in ascending priority, ties as declared)
RECURSIVE InsertDefault(_, _)
InsertDefault(i, sorted) ==
    IF sorted = <<>> THEN <<i>>
    ELSE IF DEFAULT_RULES[sorted[Len(sorted)]].priority <= DEFAULT_RULES[i].priority
         THEN Append(sorted, i)
    ELSE Append(InsertDefault(i, SubSeq(sorted, 1, Len(sorted) - 1)), sorted[Len(sorted)])
RECURSIVE SortDefaultsFrom(_, _)
SortDefaultsFrom(i, acc) ==
    IF i > Len(DEFAULT_RULES) THEN acc ELSE SortDefaultsFrom(i + 1, InsertDefault(i, acc))
DefaultOrder_ByPriority == SortDefaultsFrom(1, <<>>)

\* the order in which "for ... in DEFAULT_RULES" visits the rules: as declared
DefaultOrder == [i \in 1..Len(DEFAULT_RULES) |-> i]

\* the loop over DEFAULT_RULES, then the row's own category
RECURSIVE TryDefaults(_, _, _, _)
TryDefaults(k, row, text_m, text_d) ==
    IF k > Len(DefaultOrder) THEN Returned(row.category, row.subcategory, "row", 0)
    ELSE IF DefaultMatches(DefaultOrder[k], text_m, text_d)
         THEN Returned(DEFAULT_RULES[DefaultOrder[k]].category,
                       DEFAULT_RULES[DefaultOrder[k]].subcategory, "default", DefaultOrder[k])
         ELSE TryDefaults(k + 1, row, text_m, text_d)

\* the loop over the sorted user rules; re.search raises on a bad pattern
RECURSIVE TryUser(_, _, _, _, _)
TryUser(rs, i, row, text_m, text_d) ==
    IF i > Len(rs) THEN TryDefaults(1, row, text_m, text_d)
    ELSE IF ReError(rs[i].pattern) THEN Raised
    ELSE IF re_search(rs[i].pattern, RuleText(rs[i], text_m, text_d))
         THEN Returned(rs[i].category, rs[i].subcategory, "user", rs[i].id)
         ELSE TryUser(rs, i + 1, row, text_m, text_d)

\* (a fault: the defaults tried before the user rules)
match_and_assign_DefaultsFirst(row, sorted_rules) ==
    LET text_m == Upper(row.merchant)
        text_d == Upper(row.description)
        dflt   == TryDefaults(1, row, text_m, text_d)
    IN  IF dflt.src = "default" THEN dflt
        ELSE TryUser(sorted_rules, 1, row, text_m, text_d)

match_and_assign(row, sorted_rules) ==
    LET text_m == Upper(row.merchant)
        text_d == Upper(row.description)
    IN  TryUser(sorted_rules, 1, row, text_m, text_d)

\* apply_rules: df.apply(match_and_assign, axis=1); the first row that raises
\* ends the call with that exception
apply_rules(frame, user_rules) ==
    LET sorted_rules == SortedRules(user_rules)
        per == [i \in 1..Len(frame) |-> match_and_assign(frame[i], sorted_rules)]
    IN  IF \E i \in 1..Len(frame) : per[i].kind = "re.error"
        THEN [kind |-> "re.error", rows |-> <<>>]
        ELSE [kind |-> "return", rows |-> per]

\* list_rules: ORDER BY priority ASC, id ASC
list_rules(table) == SortedRules(table)

(***************************************************************************)
(* SpecRules: the Categorize page.  Rules are added to the rules table and *)
(* a month's frame is categorized with the user's rules.                   *)
(***************************************************************************)
MaxRules == 2

NoneText == "<None>"
TxRow(m, d) == [merchant |-> m, description |-> d,
                category |-> NoneText, subcategory |-> NoneText]

\* load_month: frames of stored transactions (category columns still NULL)
MonthFrames == {
    << TxRow("Rewe", "Rewe sagt danke"), TxRow("Baeckerei", "Brot") >>,
    << TxRow("Rewe", "Miete Mai"), TxRow("Kiosk", "Gehalt") >> }

\* what the "Create a new rule" form is filled with: (pattern, field, category)
UserRuleForms == {
    <<"REWE", "merchant", "Dining & Cafes">>,
    <<"rewe", "description", "Shopping">>,
    <<"Miete", "description", "Other">>,
    <<"(", "merchant", "Other">> }
UserPriorities == {10, 100}

RulesInit ==
    /\ rules = <<>>
    /\ arg_rules = <<>>
    /\ month_df = <<>>
    /\ result = [kind |-> "idle", rows |-> <<>>]
    /\ hrows = <<>>
    /\ hashes = <<>>
    /\ UploadIdle
    /\ ParseIdle
    /\ BooksIdle

\* db.add_rule, from the "Save Rule" button (pattern and category non-empty)
add_rule(pattern, field, category, subcategory, priority) ==
    /\ Len(rules) < MaxRules
    /\ pattern /= "" /\ category /= ""
    /\ rules' = Append(rules, [id |-> Len(rules) + 1, pattern |-> pattern,
                               field |-> field, category |-> category,
                               subcategory |-> subcategory, priority |-> priority])
    /\ UNCHANGED <<arg_rules, month_df, result, hashVars, storeVars, uploadVars, parseVars, bookVars>>

AddRule ==
    \E form \in UserRuleForms, pr \in UserPriorities :
        add_rule(form[1], form[2], form[3], "", pr)

\* Categorize page: user_rules = db.list_rules(USER); apply_rules(df, user_rules)
Categorize ==
    \E frame \in MonthFrames :
        /\ month_df' = frame
        /\ arg_rules' = list_rules(rules)
        /\ result' = apply_rules(frame, list_rules(rules))
        /\ UNCHANGED <<rules, hashVars, storeVars, uploadVars, parseVars, bookVars>>

\* apply_rules called with the same rules in any other order
ApplyRulesAnyOrder ==
    \E frame \in MonthFrames, perm \in Permutations(1..Len(rules)) :
        LET passed == [i \in 1..Len(rules) |-> rules[perm[i]]]
        IN  /\ month_df' = frame
            /\ arg_rules' = passed
            /\ result' = apply_rules(frame, passed)
            /\ UNCHANGED <<rules, hashVars, storeVars, uploadVars, parseVars, bookVars>>

RulesNext == AddRule \/ Categorize \/ ApplyRulesAnyOrder

SpecRules == RulesInit /\ [][RulesNext]_vars

\* ---- what the claims speak of
Called == result.kind /= "idle"
ReturnedOk == result.kind = "return"

\* user rule r (of the passed list) matches row: its pattern compiles and is found
UserMatches(r, row) ==
    /\ ~ReError(r.pattern)
    /\ re_search(r.pattern, RuleText(r, Upper(row.merchant), Upper(row.description)))
MatchingUser(row) == {i \in 1..Len(arg_rules) : UserMatches(arg_rules[i], row)}
MatchingDefaults(row) ==
    {i \in 1..Len(DEFAULT_RULES) :
        DefaultMatches(i, Upper(row.merchant), Upper(row.description))}

\* the passed rule that is smallest in (priority, id) among those matching row
BestUser(row) ==
    CHOOSE i \in MatchingUser(row) :
        \A j \in MatchingUser(row) :
            \/ arg_rules[i].priority < arg_rules[j].priority
            \/ /\ arg_rules[i].priority = arg_rules[j].priority
               /\ arg_rules[i].id <= arg_rules[j].id

\* C5: when apply_rules returns, every row matched by at least one user rule
\* has a category that comes from a user rule, never from DEFAULT_RULES,
\* whatever the priorities are.
C5_UserRulesBeforeDefaults ==
    ReturnedOk =>
        \A i \in 1..Len(month_df) :
            MatchingUser(month_df[i]) /= {} => result.rows[i].src = "user"

\* a user rule of priority 100 wins over matching defaults of priority 50 and 10
C5_Witness ==
    /\ ReturnedOk
    /\ \E i \in 1..Len(month_df) :
          /\ MatchingUser(month_df[i]) /= {}
          /\ \A u \in MatchingUser(month_df[i]) : arg_rules[u].priority = 100
          /\ \E d \in MatchingDefaults(month_df[i]) : DEFAULT_RULES[d].priority < 100
          /\ result.rows[i].src = "user"

\* C6: when apply_rules returns and user rules match a row, the row gets the
\* category/subcategory of the matching rule smallest in (priority, id),
\* whatever the order of the passed list.
C6_LowestPriorityThenId ==
    ReturnedOk =>
        \A i \in 1..Len(month_df) :
            MatchingUser(month_df[i]) /= {} =>
                /\ result.rows[i].at = arg_rules[BestUser(month_df[i])].id
                /\ result.rows[i].category = arg_rules[BestUser(month_df[i])].category
                /\ result.rows[i].subcategory = arg_rules[BestUser(month_df[i])].subcategory

\* two matching rules, the stronger one created later and passed first or last
C6_Witness ==
    /\ ReturnedOk
    /\ \E i \in 1..Len(month_df) :
          \E a, b \in MatchingUser(month_df[i]) :
              /\ a < b
              /\ arg_rules[a].priority > arg_rules[b].priority
              /\ arg_rules[a].id < arg_rules[b].id
              /\ arg_rules[a].category /= arg_rules[b].category
              /\ result.rows[i].category = arg_rules[b].category

\* C7: an invalid regex in a user rule never matches and nothing propagates:
\* every apply_rules call returns, each row with the category of its first
\* valid matching rule.
C7_InvalidPatternNeverMatches ==
    Called =>
        /\ ReturnedOk
        /\ \A i \in 1..Len(month_df) :
              MatchingUser(month_df[i]) /= {} =>
                  result.rows[i].category = arg_rules[BestUser(month_df[i])].category

\* C8: when apply_rules returns and no user rule matches a row, the row gets
\* the first matching default rule in declared order.
C8_DefaultsInDeclaredOrder ==
    ReturnedOk =>
        \A i \in 1..Len(month_df) :
            (MatchingUser(month_df[i]) = {} /\ MatchingDefaults(month_df[i]) /= {}) =>
                /\ result.rows[i].src = "default"
                /\ \A d \in MatchingDefaults(month_df[i]) : result.rows[i].at <= d
                /\ result.rows[i].at \in MatchingDefaults(month_df[i])
                /\ result.rows[i].category = DEFAULT_RULES[result.rows[i].at].category
                /\ result.rows[i].subcategory = DEFAULT_RULES[result.rows[i].at].subcategory

\* a row matched by an earlier default of priority 50 and a later one of
\* priority 10 gets the earlier one's category
C8_Witness ==
    /\ ReturnedOk
    /\ \E i \in 1..Len(month_df) :
          /\ MatchingUser(month_df[i]) = {}
          /\ \E d1, d2 \in MatchingDefaults(month_df[i]) :
                /\ d1 < d2
                /\ DEFAULT_RULES[d1].priority > DEFAULT_RULES[d2].priority
                /\ result.rows[i].category = DEFAULT_RULES[d1].category
                /\ result.rows[i].category /= DEFAULT_RULES[d2].category

(***************************************************************************)
(* CSV column mappers (parsers.py).  A DataFrame read by pd.read_csv is    *)
(* [columns: header names, data: rows of text cells]; an empty cell is the *)
(* NaN pandas reads it as.                                                 *)
(***************************************************************************)
LowerOf == [c \in {Char(UpperChars, i) : i \in 1..Len(UpperChars)} |->
               Char(LowerChars, CHOOSE i \in 1..Len(UpperChars) : Char(UpperChars, i) = c)]
LowerChar(c) == IF c \in DOMAIN LowerOf THEN LowerOf[c] ELSE c

\* str.lower()
RECURSIVE Lower(_)
Lower(s) == IF s = "" THEN "" ELSE LowerChar(Char(s, 1)) \o Lower(SubSeq(s, 2, Len(s)))

\* lit in text
InText(lit, text) ==
    \E i \in 1..(Len(text) - Len(lit) + 1) : SubSeq(text, i, i + Len(lit) - 1) = lit

\* str(x) / astype(str) of a cell: the empty cell is NaN
CellStr(c) == IF c = "" THEN "nan" ELSE c

\* cols = {c.lower(): c for c in df.columns}; cols.get(name): the index of the
\* column (the last one of that lower-case name), 0 for None
ColsGet(df, name) ==
    LET hits == {i \in 1..Len(df.columns) : Lower(df.columns[i]) = name /\ df.columns[i] /= ""}
    IN  IF hits = {} THEN 0 ELSE CHOOSE i \in hits : \A j \in hits : j <= i

\* cols.get(c1) or cols.get(c2) or ...: 0 when every candidate is missing
RECURSIVE FirstCandidate(_, _, _)
FirstCandidate(df, cands, k) ==
    IF k > Len(cands) THEN 0
    ELSE IF ColsGet(df, cands[k]) /= 0 THEN ColsGet(df, cands[k])
    ELSE FirstCandidate(df, cands, k + 1)

\* ... or list(df.columns)[pos]: 0 stands for the IndexError of a missing position
PickColumn(df, cands, pos) ==
    IF FirstCandidate(df, cands, 1) /= 0 THEN FirstCandidate(df, cands, 1)
    ELSE IF pos + 1 <= Len(df.columns) THEN pos + 1
    ELSE 0

\* .str.extract(r"^([^-,|]+)")[0]: the text before the first of '-', ',', '|';
\* "" stands for the NaN of "no match"
IsMerchantSep(c) == c \in {"-", ",", "|"}
ExtractMerchant(desc) ==
    LET seps == {i \in 1..Len(desc) : IsMerchantSep(Char(desc, i))}
        cut  == IF seps = {} THEN Len(desc) + 1
                ELSE CHOOSE i \in seps : \A j \in seps : i <= j
    IN  SubSeq(desc, 1, cut - 1)

\* ... .fillna(df[desc_col].astype(str))
MerchantOf(desc) == IF ExtractMerchant(desc) = "" THEN desc ELSE ExtractMerchant(desc)

Frame(recs) == [kind |-> "frame", rows |-> recs]
Raise(exc) == [kind |-> exc, rows |-> <<>>]

\* df.get(col, pd.Series([default]*len(df))): the cell when the column exists
CellOr(df, r, col, default) == IF col = 0 THEN default ELSE df.data[r][col]

\* The body the five mappers share: dparser.parse on every date cell (an
\* unparseable one raises out of the mapper), _normalize_amount on every
\* amount cell, and the tags of the institution.
MapColumns(df, date_col, merch_col, desc_col, amt_col, cur_col, type_col, tags) ==
    IF date_col = 0 \/ desc_col = 0 \/ amt_col = 0 THEN Raise("IndexError")
    ELSE IF \E r \in 1..Len(df.data) :
                dparser_parse(CellStr(df.data[r][date_col]), FALSE) = ParserError
         THEN Raise("ParserError")
    ELSE Frame([r \in 1..Len(df.data) |->
            [date        |-> Timestamp(dparser_parse(CellStr(df.data[r][date_col]), FALSE)),
             account     |-> tags.account,
             merchant    |-> IF merch_col = 0
                             THEN MerchantOf(CellStr(df.data[r][desc_col]))
                             ELSE CellStr(df.data[r][merch_col]),
             description |-> CellStr(df.data[r][desc_col]),
             amount      |-> _normalize_amount(df.data[r][amt_col]),
             currency    |-> CellStr(CellOr(df, r, cur_col, "EUR")),
             type        |-> CellStr(CellOr(df, r, type_col, tags.type)),
             source      |-> tags.source]])

parse_revolut(df) ==
    MapColumns(df,
        PickColumn(df, <<"completed date", "date">>, 0), 0,
        PickColumn(df, <<"description", "reference">>, 1),
        PickColumn(df, <<"amount", "value">>, 2),
        FirstCandidate(df, <<"currency", "currencies currency">>, 1),
        FirstCandidate(df, <<"type">>, 1),
        [account |-> "Revolut", type |-> "card", source |-> "Revolut"])

parse_sparkasse(df) ==
    MapColumns(df,
        PickColumn(df, <<"buchungstag", "wertstellung">>, 0), 0,
        PickColumn(df, <<"verwendungszweck", "text">>, 1),
        PickColumn(df, <<"betrag">>, 2),
        FirstCandidate(df, <<"währung">>, 1), 0,
        [account |-> "Sparkasse", type |-> "bank", source |-> "Sparkasse"])

parse_gebuehrenfrei(df) ==
    MapColumns(df,
        PickColumn(df, <<"datum", "date">>, 0), 0,
        PickColumn(df, <<"buchungstext", "beschreibung">>, 1),
        PickColumn(df, <<"betrag", "amount">>, 2),
        FirstCandidate(df, <<"währung", "currency">>, 1), 0,
        [account |-> "Gebührenfrei", type |-> "card", source |-> "Gebuehrenfrei"])

parse_klarna(df) ==
    LET merch_col == PickColumn(df, <<"merchant", "händler", "shop">>, 1)
        desc_col  == IF FirstCandidate(df, <<"reference", "beschreibung">>, 1) /= 0
                     THEN FirstCandidate(df, <<"reference", "beschreibung">>, 1)
                     ELSE merch_col
    IN  MapColumns(df,
            PickColumn(df, <<"date", "datum">>, 0), merch_col, desc_col,
            PickColumn(df, <<"amount", "betrag">>, 2),
            FirstCandidate(df, <<"currency", "währung">>, 1), 0,
            [account |-> "Klarna", type |-> "bnpl", source |-> "Klarna"])

\* pd.to_datetime(..., errors="coerce") is applied after dparser.parse has
\* run on every cell, so an unparseable cell raises here as well
parse_unknown(df) ==
    MapColumns(df,
        PickColumn(df, <<"date", "datum", "buchungstag">>, 0), 0,
        PickColumn(df, <<"description", "verwendungszweck", "buchungstext">>, 1),
        PickColumn(df, <<"amount", "betrag">>, 2),
        FirstCandidate(df, <<"currency", "währung">>, 1), 0,
        [account |-> "Unknown", type |-> "unknown", source |-> "Unknown"])

(***************************************************************************)
(* PDF table path (pdf_utils.py)                                           *)
(***************************************************************************)
IsWordChar(c) == IsDigit(c) \/ c \in LowerSet \/ c \in DOMAIN LowerOf \/ c = "_"

\* DATE_PAT = \b(\d{1,2}[./-]\d{1,2}[./-]\d{2,4})\b matched at i with digit
\* groups of l1, l2 and l3 characters
DateShapeAt(s, i, l1, l2, l3) ==
    LET last == i + l1 + l2 + l3 + 1
    IN  /\ last <= Len(s)
        /\ AllDigits(SubSeq(s, i, i + l1 - 1))
        /\ IsDateSep(Char(s, i + l1))
        /\ AllDigits(SubSeq(s, i + l1 + 1, i + l1 + l2))
        /\ IsDateSep(Char(s, i + l1 + l2 + 1))
        /\ AllDigits(SubSeq(s, i + l1 + l2 + 2, last))
        /\ (i = 1 \/ ~IsWordChar(Char(s, i - 1)))
        /\ (last = Len(s) \/ ~IsWordChar(Char(s, last + 1)))

\* the digit-group lengths with which DATE_PAT matches at i
DateShapes(s, i) ==
    {sh \in (1..2) \X (1..2) \X (2..4) : DateShapeAt(s, i, sh[1], sh[2], sh[3])}

\* the positions at which DATE_PAT matches
DateStarts(s) == {i \in 1..Len(s) : DateShapes(s, i) /= {}}

\* DATE_PAT.search(s) is not None
ContainsDate(s) == DateStarts(s) /= {}

Count(S) == Cardinality(S)

\* the first column whose score is the greatest ("if hits > max_hits")
FirstMax(cols, score) ==
    CHOOSE c \in cols :
        /\ \A c2 \in cols : score[c2] <= score[c]
        /\ \A c2 \in cols : c2 < c => score[c2] < score[c]

RECURSIVE SumLen(_, _, _)
SumLen(grid, c, r) == IF r > Len(grid) THEN 0 ELSE Len(grid[r][c]) + SumLen(grid, c, r + 1)

\* the records whose index is in keep, in order
RECURSIVE KeepRows(_, _, _)
KeepRows(recs, keep, i) ==
    IF i > Len(recs) THEN <<>>
    ELSE (IF i \in keep THEN <<recs[i]>> ELSE <<>>) \o KeepRows(recs, keep, i + 1)

\* "".join(map(str, r.values)).strip() == ""
RECURSIVE RowText(_, _)
RowText(row, c) == IF c > Len(row) THEN "" ELSE row[c] \o RowText(row, c + 1)
IsBlankRow(row) == Strip(RowText(row, 1)) = ""

\* the table without its entirely empty rows
NonBlankRows(table_rows) ==
    KeepRows(table_rows, {r \in 1..Len(table_rows) : ~IsBlankRow(table_rows[r])}, 1)

GridCols(grid) == 1..Len(grid[1])

\* the date column by regex hit frequency
DateHits(grid, c) == Count({r \in 1..Len(grid) : ContainsDate(grid[r][c])})
DateCol(grid) == FirstMax(GridCols(grid), [c \in GridCols(grid) |-> DateHits(grid, c)])

\* the amount column by the number of cells _clean_amount accepts
AmountHits(grid, c) == Count({r \in 1..Len(grid) : _clean_amount(grid[r][c]) /= NoneVal})
AmtCol(grid) == FirstMax(GridCols(grid), [c \in GridCols(grid) |-> AmountHits(grid, c)])

\* the widest of the other columns (0: there is no other column)
DescCol(grid, rest) ==
    IF rest = {} THEN 0 ELSE FirstMax(rest, [c \in rest |-> SumLen(grid, c, 1)])

\* str() of the merchant column of the PDF paths: .str.extract without
\* fillna leaves NaN where nothing is extracted
NoMerchant(m) == IF m = "" THEN "nan" ELSE m
PdfMerchant(desc) == NoMerchant(ExtractMerchant(desc))

OutRow(cells, date_col, amt_col, desc_col) ==
    [date        |-> _try_parse_date(cells[date_col]),
     account     |-> "",
     merchant    |-> IF desc_col = 0 THEN "" ELSE PdfMerchant(cells[desc_col]),
     description |-> IF desc_col = 0 THEN "" ELSE cells[desc_col],
     amount      |-> _clean_amount(cells[amt_col]),
     currency    |-> "EUR",
     type        |-> "bank",
     source      |-> "PDF"]

\* out.dropna(subset=["date", "amount"])
DropNa(out) ==
    KeepRows(out, {r \in 1..Len(out) : out[r].date /= NoDate /\ out[r].amount /= NoneVal}, 1)

GridToDf(grid, date_col, amt_col) ==
    DropNa([r \in 1..Len(grid) |->
              OutRow(grid[r], date_col, amt_col,
                     DescCol(grid, GridCols(grid) \ {date_col, amt_col}))])

NonBlankToDf(grid) ==
    IF grid = <<>> THEN <<>>
    ELSE IF Len(grid[1]) = 0 THEN <<>>
    ELSE GridToDf(grid, DateCol(grid), AmtCol(grid))

_table_to_df(table_rows) == NonBlankToDf(NonBlankRows(table_rows))

\* "if not df.empty: dfs.append(df)"
AppendFrame(out) == IF out = <<>> THEN <<>> ELSE <<out>>

\* extract_tables_pdf: the frames of the tables that are not empty, in page order
RECURSIVE extract_tables_pdf(_, _)
extract_tables_pdf(tables, t) ==
    IF t > Len(tables) THEN <<>>
    ELSE AppendFrame(_table_to_df(tables[t])) \o extract_tables_pdf(tables, t + 1)

RECURSIVE Concat(_, _)
Concat(dfs, i) == IF i > Len(dfs) THEN <<>> ELSE dfs[i] \o Concat(dfs, i + 1)

\* account/source from filename hints
NameHint(name, row) ==
    IF InText("revolut", name)
    THEN [row EXCEPT !.account = "Revolut", !.source = "Revolut-PDF"]
    ELSE IF InText("sparkasse", name)
    THEN [row EXCEPT !.account = "Sparkasse", !.source = "Sparkasse-PDF"]
    ELSE IF InText("gebuehrenfrei", name) \/ InText("advanzia", name)
    THEN [row EXCEPT !.account = "Gebührenfrei", !.source = "Gebuehrenfrei-PDF"]
    ELSE IF InText("klarna", name)
    THEN [row EXCEPT !.account = "Klarna", !.source = "Klarna-PDF"]
    ELSE row

WithHints(name, out) == [r \in 1..Len(out) |-> NameHint(name, out[r])]

(***************************************************************************)
(* OCR fallback (pdf_utils.py)                                             *)
(***************************************************************************)
Max(S) == CHOOSE x \in S : \A y \in S : y <= x
Min(S) == CHOOSE x \in S : \A y \in S : x <= y

\* each \d{m,n} takes as many digits as the rest of the pattern allows: of
\* the shapes that match, the one the backtracking reaches first
GreedyShape(shapes) ==
    CHOOSE x \in shapes : \A y \in shapes :
        \/ x[1] > y[1]
        \/ x[1] = y[1] /\ x[2] > y[2]
        \/ x[1] = y[1] /\ x[2] = y[2] /\ x[3] >= y[3]

DateSpan(i, sh) == <<i, i + sh[1] + sh[2] + sh[3] + 1>>

\* DATE_PAT.search(ln): <<start, end>> of the leftmost match, or <<0, 0>>
DateSearchFrom(ln, starts) ==
    IF starts = {} THEN <<0, 0>>
    ELSE DateSpan(Min(starts), GreedyShape(DateShapes(ln, Min(starts))))
DateSearch(ln) == DateSearchFrom(ln, DateStarts(ln))

\* the digits from position p on
RECURSIVE DigitRun(_, _)
DigitRun(s, p) == IF p <= Len(s) /\ IsDigit(Char(s, p)) THEN 1 + DigitRun(s, p + 1) ELSE 0

\* -?\d[\d\.\s]*,\d{2} at p: the position of its last character, or 0
GermanAmountEnd(s, p) ==
    LET q  == IF Char(s, p) = "-" THEN p + 1 ELSE p
        ks == {k \in 0..Len(s) :
                 /\ q + k + 3 <= Len(s)
                 /\ \A j \in (q + 1)..(q + k) : IsDigit(Char(s, j)) \/ Char(s, j) \in {".", " "}
                 /\ Char(s, q + k + 1) = ","
                 /\ IsDigit(Char(s, q + k + 2)) /\ IsDigit(Char(s, q + k + 3))}
    IN  IF q <= Len(s) /\ IsDigit(Char(s, q)) /\ ks /= {} THEN q + Max(ks) + 3 ELSE 0

\* \d+\.\d{2} after n digits at p: the position of its last character, or 0
DotAmountEnd(s, p, n) ==
    IF n > 0 /\ p + n + 2 <= Len(s) /\ Char(s, p + n) = "."
       /\ IsDigit(Char(s, p + n + 1)) /\ IsDigit(Char(s, p + n + 2))
    THEN p + n + 2 ELSE 0

\* the alternatives in the order written: german, dotted, plain digits
AmountEnd(p, german, dotted, n) ==
    IF german > 0 THEN german ELSE IF dotted > 0 THEN dotted ELSE p + n - 1

AmountAt(parts, p) ==
    SubSeq(parts, p, AmountEnd(p, GermanAmountEnd(parts, p),
                               DotAmountEnd(parts, p, DigitRun(parts, p)),
                               DigitRun(parts, p)))

\* re.search(r"(-?\d[\d\.\s]*,\d{2}|\d+\.\d{2}|\d+)", parts).group(1): the
\* leftmost match; "" for no match
AmountSearchFrom(parts, starts) == IF starts = {} THEN "" ELSE AmountAt(parts, Min(starts))
AmountSearch(parts) ==
    AmountSearchFrom(parts, {p \in 1..Len(parts) :
                               IsDigit(Char(parts, p)) \/ GermanAmountEnd(parts, p) > 0})

\* amt = _clean_amount(m2.group(1)) if m2 else None
AmountOf(m2) == IF m2 = "" THEN NoneVal ELSE _clean_amount(m2)

\* rows.append((d, desc, amt)) unless the date or the amount is None
OcrRow(d, parts, amt) ==
    IF d = NoDate THEN <<>>
    ELSE IF amt = NoneVal THEN <<>>
    ELSE << [date        |-> d,
             account     |-> "",
             merchant    |-> PdfMerchant(parts),
             description |-> parts,
             amount      |-> amt,
             currency    |-> "EUR",
             type        |-> "bank",
             source      |-> "PDF_OCR"] >>

OcrRowOf(d, parts) == OcrRow(d, parts, AmountOf(AmountSearch(parts)))

\* one line of OCR text, m its DATE_PAT match: the row it yields, or <<>>
LineRowAt(ln, m) ==
    IF m = <<0, 0>> THEN <<>>
    ELSE OcrRowOf(_try_parse_date(SubSeq(ln, m[1], m[2])),
                  Strip(SubSeq(ln, m[2] + 1, Len(ln))))

LineRow(ln) == LineRowAt(ln, DateSearch(ln))

RECURSIVE lines_to_df(_, _)
lines_to_df(lines, i) ==
    IF i > Len(lines) THEN <<>> ELSE LineRow(lines[i]) \o lines_to_df(lines, i + 1)

\* the tables first; the OCR lines (none when OCR is not installed) only if
\* no table gave a row
PdfFrame(file_name, pdf, dfs) ==
    IF dfs /= <<>> THEN Frame(WithHints(file_name, Concat(dfs, 1)))
    ELSE IF pdf.ocr_lines /= <<>>
    THEN Frame(WithHints(file_name, lines_to_df(pdf.ocr_lines, 1)))
    ELSE Frame(<<>>)

parse_pdf_statement(file_name, pdf) ==
    PdfFrame(Lower(file_name), pdf, extract_tables_pdf(pdf.tables, 1))

\* an uploaded file: the frame read_csv makes of a CSV file, or the tables
\* and the OCR lines of a PDF file
CsvFile(columns, data) ==
    [df |-> [columns |-> columns, data |-> data], tables |-> <<>>, ocr_lines |-> <<>>]
PdfFile(tables, ocr_lines) ==
    [df |-> [columns |-> <<>>, data |-> <<>>], tables |-> tables, ocr_lines |-> ocr_lines]

(***************************************************************************)
(* SpecParse: the functions of the import pipeline called on their own.    *)
(* fn names the function called last, arg is what it was called with and   *)
(* ret what it gave back.                                                  *)
(***************************************************************************)
\* what is left alone by a call
ParseFrame == UNCHANGED <<fn, arg, hashVars, ruleVars, storeVars, uploadVars, bookVars>>

\* a function without stages of its own is called and returns
Calls(name) == fn = name /\ call_pc = "called"
Done(name) == fn = name /\ call_pc = "returned"

\* ---- amount cells under both locale rules
AmountTexts ==
    {"1.234,56", "1234,56", "-49,90 €", "12.50", "-12,50", "1.234.567,89", " 7 ",
     "+3,00", "12,5 €", "1 234,56", "abc", "", "-", "€", "1,2,3", "12,50 EUR"}

NormalizeAmount ==
    /\ Calls("amount")
    /\ ret' = [csv |-> _normalize_amount(arg), pdf |-> _clean_amount(arg)]
    /\ call_pc' = "returned"
    /\ UNCHANGED <<pdf_dfs, pdf_lines, ocr_runs>>
    /\ ParseFrame

Float(m, e) == [k |-> "float", m |-> m, e |-> e]

\* C16: the PDF rule removes every '.' and turns ',' into '.', so "1.234,56"
\* gives 1234.56; the CSV rule only turns ',' into '.', so "1234,56" gives
\* 1234.56 and "1.234,56" is not a number; both strip the euro sign and
\* spaces, so "-49,90 €" gives -49.90 and a text without '.' gets the same
\* result from both; a text that is not a number gives the "not a number"
\* result (NaN, None), never an exception.
C16_LocaleRulesKeptApart ==
    Done("amount") =>
        /\ arg = "1.234,56" => (ret.pdf = Float(123456, 2) /\ ret.csv = NaN)
        /\ arg = "1234,56" => ret.csv = Float(123456, 2)
        /\ arg = "-49,90 €" => (ret.csv = Float(0 - 499, 1) /\ ret.pdf = Float(0 - 499, 1))
        /\ arg = "12.50" => (ret.csv = Float(125, 1) /\ ret.pdf = Float(1250, 0))
        /\ ret.csv.k \in {"float", "nan"}
        /\ ret.pdf.k \in {"float", "None"}
        /\ IndexOf(arg, ".") = 0 =>
              /\ (ret.csv.k = "float") <=> (ret.pdf.k = "float")
              /\ ret.csv.k = "float" => ret.csv = ret.pdf

\* the German form parsed by the PDF rule and refused by the CSV rule
C16_Witness ==
    /\ Done("amount")
    /\ arg = "1.234,56"
    /\ ret.pdf = Float(123456, 2)
    /\ ret.csv = NaN

\* ---- one description through the CSV mapper, the table path and the OCR path
MerchantTexts ==
    {"REWE SAGT DANKE - 12345", "Miete Maerz 2024", "Amazon, Marketplace 3",
     "Kiosk|Markt 2", "Baeckerei 24", "-Gutschrift 5", ",Storno 7", "|Lastschrift 1",
     "- REWE 12", "E-Center 9"}

OneRowCsv(d) ==
    [columns |-> <<"Buchungstag", "Verwendungszweck", "Betrag">>,
     data    |-> << <<"05.03.2024", d, "-12,50">> >>]

DeriveMerchant ==
    /\ Calls("merchant")
    /\ ret' = [csv   |-> parse_sparkasse(OneRowCsv(arg)).rows,
               table |-> _table_to_df(<< <<"05/03/2024", arg, "-12,50">> >>),
               ocr   |-> lines_to_df(<<"05/03/2024 " \o arg>>, 1)]
    /\ call_pc' = "returned"
    /\ UNCHANGED <<pdf_dfs, pdf_lines, ocr_runs>>
    /\ ParseFrame

StartsWithSeparator(d) == d /= "" /\ IsMerchantSep(Char(d, 1))

\* the merchant of every record is what the CSV mappers derive from the
\* record's description
CsvDerived(recs) ==
    \A i \in 1..Len(recs) : recs[i].merchant = MerchantOf(recs[i].description)

\* C15: for every description the merchant of the PDF table path and of the
\* OCR path is the merchant the CSV mappers derive: the text before the
\* first of '-', ',', '|', and the full description when that extraction
\* finds nothing.
C15_MerchantSameOnAllPaths ==
    Done("merchant") =>
        /\ Len(ret.csv) = 1 /\ Len(ret.table) = 1 /\ Len(ret.ocr) = 1
        /\ CsvDerived(ret.csv)
        /\ CsvDerived(ret.table)
        /\ CsvDerived(ret.ocr)
        /\ ret.table[1].merchant = ret.csv[1].merchant

\* the part of C15 that holds: a description that does not start with a
\* separator gets the same merchant on the three paths
C15_SameWhenTextBeforeSeparator ==
    (Done("merchant") /\ ~StartsWithSeparator(arg)) =>
        /\ CsvDerived(ret.csv)
        /\ CsvDerived(ret.table)
        /\ CsvDerived(ret.ocr)
        /\ ret.table[1].merchant = ret.csv[1].merchant

\* ---- parse_unknown on tables of few, many, known and unknown headers
DateNames == {"date", "datum", "buchungstag"}
DescNames == {"description", "verwendungszweck", "buchungstext"}
AmountNames == {"amount", "betrag"}

HeaderLists ==
    {<<"Date", "Description", "Amount">>,
     <<"Datum", "Buchungstext", "Betrag", "Währung">>,
     <<"x", "Buchungstag", "y", "Verwendungszweck", "Betrag">>,
     <<"Amount", "Description", "Date">>,
     <<"DATE", "DATUM", "AMOUNT">>,
     <<"Valuta", "Text", "Umsatz">>,
     <<"Valuta", "Text", "Umsatz", "Saldo">>,
     <<"Datum", "Betrag", "Verwendungszweck">>,
     <<"Valuta", "Text">>,
     <<"Datum", "Betrag">>,
     <<"Datum", "Verwendungszweck">>,
     <<"Betrag", "Text">>,
     <<"Date">>,
     <<"Valuta">>}

\* a cell that fits its header, or its position when the header says nothing
CellFor(header, i) ==
    IF Lower(header[i]) \in DateNames THEN "05.03.2024"
    ELSE IF Lower(header[i]) \in AmountNames THEN "-12,50"
    ELSE IF Lower(header[i]) \in DescNames THEN "REWE - Markt"
    ELSE IF i = 1 THEN "06.03.2024"
    ELSE IF i = 3 THEN "7,00"
    ELSE "Zelle"

TableOf(header, n) ==
    [columns |-> header,
     data    |-> [r \in 1..n |-> [i \in 1..Len(header) |-> CellFor(header, i)]]]

UnknownTables == {TableOf(header, n) : header \in HeaderLists, n \in 0..2}

CallParseUnknown ==
    /\ Calls("parse_unknown")
    /\ ret' = parse_unknown(arg)
    /\ call_pc' = "returned"
    /\ UNCHANGED <<pdf_dfs, pdf_lines, ocr_runs>>
    /\ ParseFrame

\* C11: parse_unknown never fails on column selection: whatever the header
\* names and the number of columns (fewer than three, no rows), it returns a
\* frame with one record for each row of the table.
C11_NeverFailsOnColumnSelection ==
    Done("parse_unknown") =>
        /\ ret.kind = "frame"
        /\ Len(ret.rows) = Len(arg.data)

\* the part of C11 that holds: with three columns or more every field finds
\* a column (the first candidate header, else position 0/1/2), also for a
\* table without rows
C11_ReturnsWithThreeColumns ==
    (Done("parse_unknown") /\ Len(arg.columns) >= 3) =>
        /\ ret.kind = "frame"
        /\ Len(ret.rows) = Len(arg.data)
        /\ \A r \in 1..Len(ret.rows) :
             /\ ret.rows[r].description =
                  arg.data[r][PickColumn(arg, <<"description", "verwendungszweck",
                                               "buchungstext">>, 1)]
             /\ ret.rows[r].amount =
                  _normalize_amount(arg.data[r][PickColumn(arg, <<"amount", "betrag">>, 2)])

\* ---- the column vote of _table_to_df on a grid of three columns
Separators == {".", "/", "-"}
Roles == {"date", "amount", "text"}
Orders == {o \in [1..3 -> Roles] : \A a, b \in 1..3 : a /= b => o[a] /= o[b]}

\* ten cells of each kind; the date column holds "Datum" in row kd and the
\* amount column "Betrag" in row ka
VoteCell(role, r, sep, kd, ka) ==
    IF role = "date"
    THEN (IF r = kd THEN "Datum" ELSE Pad(r, 2) \o sep \o "03" \o sep \o "2024")
    ELSE IF role = "amount"
    THEN (IF r = ka THEN "Betrag" ELSE "-" \o IntStr(r) \o ",50")
    ELSE "Kartenzahlung REWE Markt Filiale " \o IntStr(r)

VoteGrid(order, sep, kd, ka) ==
    [r \in 1..10 |-> [c \in 1..3 |-> VoteCell(order[c], r, sep, kd, ka)]]

RoleAt(order, role) == CHOOSE c \in 1..3 : order[c] = role

\* date_col, amt_col and desc_col as _table_to_df picks them
RolesOf(grid, date_col, amt_col) ==
    [date        |-> date_col,
     amount      |-> amt_col,
     description |-> DescCol(grid, GridCols(grid) \ {date_col, amt_col})]
ColumnRoles(grid) == RolesOf(grid, DateCol(grid), AmtCol(grid))

\* the grids: an order of the columns, a date separator, and the rows of
\* the two cells that are no date and no amount
VoteGrids ==
    {[order |-> order, sep |-> sep, grid |-> VoteGrid(order, sep, kd, ka)] :
        order \in Orders, sep \in Separators, kd \in {1, 10}, ka \in {1, 10}}

VoteColumns ==
    /\ Calls("_table_to_df")
    /\ ret' = [roles |-> ColumnRoles(NonBlankRows(arg.grid)),
               out   |-> _table_to_df(arg.grid)]
    /\ call_pc' = "returned"
    /\ UNCHANGED <<pdf_dfs, pdf_lines, ocr_runs>>
    /\ ParseFrame

\* C12: on a grid with a column of 9 of 10 date-shaped strings, a column of
\* 9 of 10 amounts and a column of long free text, the date role goes to the
\* date column, the amount role to the amount column and the description
\* role to the text column, in each of the six orders of the columns.
C12_RolesInEveryOrder ==
    Done("_table_to_df") =>
        /\ ret.roles.date = RoleAt(arg.order, "date")
        /\ ret.roles.amount = RoleAt(arg.order, "amount")
        /\ ret.roles.description = RoleAt(arg.order, "text")

\* the part of C12 that holds: the date and the description role in every
\* order; the amount role when the dates are written with '/' or '-'; with
\* '.' the date cells are amounts under the PDF rule as well, the vote is
\* tied at 9 and goes to the lower column index of the two
C12_RolesWhenDatesAreNoAmounts ==
    Done("_table_to_df") =>
        /\ ret.roles.date = RoleAt(arg.order, "date")
        /\ ret.roles.description = RoleAt(arg.order, "text")
        /\ arg.sep /= "." => ret.roles.amount = RoleAt(arg.order, "amount")
        /\ arg.sep = "." =>
              ret.roles.amount = Min({RoleAt(arg.order, "date"), RoleAt(arg.order, "amount")})

\* ---- lines_to_df on one line of OCR text
OcrTexts ==
    {"05.03.2024 REWE SAGT DANKE -12,50",
     "05.03.2024 Miete Maerz -800,00 EUR",
     "05.03.2024 Gehalt 1.234,56",
     "Buchung 05.03.2024 REWE -3,10",
     "3/4/24 Kiosk 2,00",
     "05.03.2024 REWE 123 Berlin -12,50",
     "05.03.2024 Kartenzahlung 12.50",
     "05.03.2024 Kartenzahlung -12.50",
     "05.03.2024 Filiale 7 Berlin",
     "05.03.2024 5 12,50",
     "05.03.2024 Ueberweisung",
     "31.02.2024 REWE -1,00",
     "Saldo neu 10,00"}

OcrLine ==
    /\ Calls("lines_to_df")
    /\ ret' = lines_to_df(<<arg>>, 1)
    /\ call_pc' = "returned"
    /\ UNCHANGED <<pdf_dfs, pdf_lines, ocr_runs>>
    /\ ParseFrame

\* the words of a text, split at blanks
RECURSIVE Tokens(_)
Tokens(s) ==
    IF s = "" THEN <<>>
    ELSE IF IndexOf(s, " ") = 0 THEN <<s>>
    ELSE (IF IndexOf(s, " ") = 1 THEN <<>> ELSE <<SubSeq(s, 1, IndexOf(s, " ") - 1)>>)
         \o Tokens(SubSeq(s, IndexOf(s, " ") + 1, Len(s)))

Unsigned(tok) == IF tok /= "" /\ Char(tok, 1) = "-" THEN SubSeq(tok, 2, Len(tok)) ELSE tok

\* 12,50  -800,00  1.234,56
IsCommaAmount(tok) ==
    LET u == Unsigned(tok)
    IN  /\ Len(u) >= 4
        /\ Char(u, Len(u) - 2) = ","
        /\ AllDigits(SubSeq(u, Len(u) - 1, Len(u)))
        /\ IsDigit(Char(u, 1))
        /\ \A i \in 1..(Len(u) - 3) : IsDigit(Char(u, i)) \/ Char(u, i) = "."

\* 12.50  -12.50
IsDotAmount(tok) ==
    LET u == Unsigned(tok)
    IN  /\ Len(u) >= 4
        /\ Char(u, Len(u) - 2) = "."
        /\ AllDigits(SubSeq(u, Len(u) - 1, Len(u)))
        /\ AllDigits(SubSeq(u, 1, Len(u) - 3))

IsAmountToken(tok) == IsCommaAmount(tok) \/ IsDotAmount(tok)

\* the last amount-shaped word of the text, "" when it has none
TrailingAmount(toks) ==
    IF \E i \in 1..Len(toks) : IsAmountToken(toks[i])
    THEN toks[Max({i \in 1..Len(toks) : IsAmountToken(toks[i])})]
    ELSE ""

\* the number a word in decimal-comma or decimal-dot form stands for
TokenValue(tok) == IF IsCommaAmount(tok) THEN _clean_amount(tok) ELSE PyFloat(tok)

\* the text after the date match of a line
AfterDate(ln) == Strip(SubSeq(ln, DateSearch(ln)[2] + 1, Len(ln)))
DateOf(ln) == _try_parse_date(SubSeq(ln, DateSearch(ln)[1], DateSearch(ln)[2]))

\* the line has a valid date and a trailing amount
IsRecordLine(ln) ==
    /\ ContainsDate(ln)
    /\ DateOf(ln) /= NoDate
    /\ TrailingAmount(Tokens(AfterDate(ln))) /= ""

\* C14: a line with a valid date and a trailing amount-shaped word after the
\* date becomes exactly one record, whose amount is the value of that
\* trailing word in decimal-comma or decimal-dot form; any other line
\* becomes no record.
C14_TrailingAmountOfTheLine ==
    Done("lines_to_df") =>
        IF IsRecordLine(arg)
        THEN /\ Len(ret) = 1
             /\ ret[1].amount = TokenValue(TrailingAmount(Tokens(AfterDate(arg))))
        ELSE ret = <<>>

\* the part of C14 that holds: a line without a date-shaped match or with an
\* invalid date gives no record, and a record carries the date of the line
\* and the text after it as description
C14_DateAndDescription ==
    Done("lines_to_df") =>
        /\ (~ContainsDate(arg) \/ DateOf(arg) = NoDate) => ret = <<>>
        /\ Len(ret) <= 1
        /\ \A i \in 1..Len(ret) :
             ret[i].date = DateOf(arg) /\ ret[i].description = AfterDate(arg)

\* ---- parse_pdf_statement, stage by stage
PdfNames == {"kontoauszug.pdf", "Klarna_2024.pdf"}

\* what pdfplumber finds on the pages: no table, a table with two
\* transactions, a table of a header and a total only, an empty table
PdfTables ==
    {<<>>,
     << << <<"Datum", "Text", "Betrag">>,
           <<"05/03/2024", "REWE SAGT DANKE", "-12,50">>,
           <<"06/03/2024", "Miete Maerz", "-800,00">> >> >>,
     << << <<"Datum", "Text", "Betrag">>, <<"Summe", "Saldo neu", "10,00">> >> >>,
     << << <<"", "", "">> >>,
        << <<"07/03/2024", "Kiosk am Markt", "-2,00">> >> >>,
     << << <<"", " ", "">> >> >>}

\* what pytesseract reads off the pages, line by line
PdfTexts ==
    {<<>>,
     <<"Seite 1 von 2", "   ">>,
     <<"  ", " 05.03.2024 REWE SAGT DANKE -12,50 ", "Saldo neu">>}

PdfInput(name, tables, text, available) ==
    [file_name |-> name, tables |-> tables, page_text |-> text, OCR_AVAILABLE |-> available]

\* the lines of the page text that are not blank, stripped
RECURSIVE StrippedLines(_, _)
StrippedLines(text, i) ==
    IF i > Len(text) THEN <<>>
    ELSE (IF Strip(text[i]) = "" THEN <<>> ELSE <<Strip(text[i])>>)
         \o StrippedLines(text, i + 1)

ocr_lines_from_pdf(pdf) ==
    IF ~pdf.OCR_AVAILABLE THEN <<>> ELSE StrippedLines(pdf.page_text, 1)

\* (a fault: the OCR stage entered whatever the tables gave)
NeedsOcr_Always(found) == TRUE

\* "if dfs: ... return out": the call goes on to the OCR stage only when no
\* table gave a frame
NeedsOcr(found) == found = <<>>

PdfInputs ==
    {PdfInput(name, tables, text, available) :
        name \in PdfNames, tables \in PdfTables, text \in PdfTexts, available \in BOOLEAN}

\* dfs = extract_tables_pdf(file_bytes)
PdfTablesStage ==
    /\ Calls("parse_pdf_statement")
    /\ pdf_dfs' = extract_tables_pdf(arg.tables, 1)
    /\ call_pc' = "tables"
    /\ UNCHANGED <<ret, pdf_lines, ocr_runs>>
    /\ ParseFrame

\* out = pd.concat(dfs); the filename hints; return out
PdfReturnTables ==
    /\ call_pc = "tables"
    /\ ~NeedsOcr(pdf_dfs)
    /\ ret' = Frame(WithHints(Lower(arg.file_name), Concat(pdf_dfs, 1)))
    /\ call_pc' = "returned"
    /\ UNCHANGED <<pdf_dfs, pdf_lines, ocr_runs>>
    /\ ParseFrame

\* lines = ocr_lines_from_pdf(file_bytes)
PdfOcr ==
    /\ call_pc = "tables"
    /\ NeedsOcr(pdf_dfs)
    /\ pdf_lines' = ocr_lines_from_pdf(arg)
    /\ ocr_runs' = ocr_runs + 1
    /\ call_pc' = "ocr"
    /\ UNCHANGED <<ret, pdf_dfs>>
    /\ ParseFrame

\* df = lines_to_df(lines); the filename hints; return df
PdfReturnOcr ==
    /\ call_pc = "ocr"
    /\ pdf_lines /= <<>>
    /\ ret' = Frame(WithHints(Lower(arg.file_name), lines_to_df(pdf_lines, 1)))
    /\ call_pc' = "returned"
    /\ UNCHANGED <<pdf_dfs, pdf_lines, ocr_runs>>
    /\ ParseFrame

\* "If nothing works, return empty DF"
PdfReturnEmpty ==
    /\ call_pc = "ocr"
    /\ pdf_lines = <<>>
    /\ ret' = Frame(<<>>)
    /\ call_pc' = "returned"
    /\ UNCHANGED <<pdf_dfs, pdf_lines, ocr_runs>>
    /\ ParseFrame

ParseNext ==
    \/ NormalizeAmount
    \/ DeriveMerchant
    \/ CallParseUnknown
    \/ VoteColumns
    \/ OcrLine
    \/ PdfTablesStage
    \/ PdfReturnTables
    \/ PdfOcr
    \/ PdfReturnOcr
    \/ PdfReturnEmpty

\* one call, of any of the functions on any of its inputs
ParseInit ==
    /\ hrows = <<>>
    /\ hashes = <<>>
    /\ RulesIdle
    /\ UploadIdle
    /\ BooksIdle
    /\ \/ fn = "amount" /\ arg \in AmountTexts
       \/ fn = "merchant" /\ arg \in MerchantTexts
       \/ fn = "parse_unknown" /\ arg \in UnknownTables
       \/ fn = "_table_to_df" /\ arg \in VoteGrids
       \/ fn = "lines_to_df" /\ arg \in OcrTexts
       \/ fn = "parse_pdf_statement" /\ arg \in PdfInputs
    /\ ret = <<>>
    /\ call_pc = "called"
    /\ pdf_dfs = <<>>
    /\ pdf_lines = <<>>
    /\ ocr_runs = 0

SpecParse == ParseInit /\ [][ParseNext]_vars

PdfCalled == fn = "parse_pdf_statement"
PdfReturned == PdfCalled /\ call_pc = "returned"

\* C13: parse_pdf_statement extracts the tables first and enters the OCR
\* stage only when the tables gave no records, at most once; a call whose
\* tables gave records returns them without OCR; a call in which both
\* stages gave nothing (OCR not installed included) returns an empty record
\* set; every call that is over has returned a frame, the one the Upload
\* page gets for that file.
C13_TablesFirstThenOcr ==
    PdfCalled =>
        /\ ocr_runs <= 1
        /\ ocr_runs > 0 => pdf_dfs = <<>>
        /\ call_pc \in {"called", "tables", "ocr", "returned"}
        /\ call_pc = "called" => ocr_runs = 0
        /\ call_pc = "ocr" => ocr_runs = 1
        /\ call_pc /= "called" => pdf_dfs = extract_tables_pdf(arg.tables, 1)
        /\ PdfReturned =>
             /\ ret.kind = "frame"
             /\ pdf_dfs /= <<>> => (ocr_runs = 0 /\ ret.rows /= <<>>)
             /\ pdf_dfs = <<>> => ocr_runs = 1
             /\ (pdf_dfs = <<>> /\ pdf_lines = <<>>) => ret.rows = <<>>
             /\ (pdf_dfs = <<>> /\ ~arg.OCR_AVAILABLE) => ret.rows = <<>>
             /\ ret = parse_pdf_statement(arg.file_name,
                          PdfFile(arg.tables, ocr_lines_from_pdf(arg)))

\* the tables gave records and the pages hold text OCR could read, yet the
\* call returned the table records without entering the OCR stage
C13_Witness ==
    /\ PdfReturned
    /\ pdf_dfs /= <<>>
    /\ arg.OCR_AVAILABLE
    /\ StrippedLines(arg.page_text, 1) /= <<>>
    /\ ocr_runs = 0
    /\ Len(ret.rows) = 2

(***************************************************************************)
(* Upload page and the transactions table (app.py, db.py)                  *)
(***************************************************************************)
MaxFiles == 2
Users == {"anna-default", "ben-default"}

\* the statements a user may drop on the uploader, by file name
Uploads ==
    [n \in {"Sparkasse_Maerz.pdf", "sparkasse_q1.pdf", "revolut_march.csv", "umsatz.csv"} |->
        CASE n = "Sparkasse_Maerz.pdf" ->
               PdfFile(<< << <<"Buchungstag", "Verwendungszweck", "Betrag">>,
                             <<"05/03/2024", "REWE SAGT DANKE", "-12,50">>,
                             <<"05/03/2024", "REWE SAGT DANKE", "-12,50">>,
                             <<"06/03/2024", "Miete Maerz", "-800,00">> >> >>, <<>>)
          [] n = "sparkasse_q1.pdf" ->
               PdfFile(<< << <<"05/03/2024", "REWE SAGT DANKE", "-12,50">>,
                             <<"07/03/2024", "Kiosk am Markt", "abc">>,
                             <<"Summe", "Saldo neu", "10,00">> >> >>, <<>>)
          [] n = "revolut_march.csv" ->
               CsvFile(<<"Completed Date", "Description", "Amount", "Currency", "Type">>,
                       << <<"2024-03-05", "Rewe sagt danke", "-12.50", "EUR", "CARD_PAYMENT">>,
                          <<"2024-03-06", "Miete", "1.234,56", "EUR", "TRANSFER">> >>)
          [] n = "umsatz.csv" ->
               CsvFile(<<"Buchungstag", "Verwendungszweck", "Betrag">>,
                       << <<"05.03.2024", "REWE SAGT DANKE", "-12,50">>,
                          <<"Summe", "", "-12,50">> >>)]

FileNames == DOMAIN Uploads

EndsWith(text, suffix) ==
    Len(text) >= Len(suffix) /\ SubSeq(text, Len(text) - Len(suffix) + 1, Len(text)) = suffix

\* the parser the Upload loop picks from the lower-cased file name
ParseNamed(name, f) ==
    IF EndsWith(name, ".pdf") THEN parse_pdf_statement(name, f)
    ELSE IF InText("revolut", name) THEN parse_revolut(f.df)
    ELSE IF InText("sparkasse", name) \/ InText("umsatz", name) THEN parse_sparkasse(f.df)
    ELSE IF InText("klarna", name) THEN parse_klarna(f.df)
    ELSE IF InText("gebuehrenfrei", name) \/ InText("advanzia", name)
            \/ InText("mastercard", name) THEN parse_gebuehrenfrei(f.df)
    ELSE parse_unknown(f.df)

\* name = f.name.lower()
ParseUpload(fname) == ParseNamed(Lower(fname), Uploads[fname])

\* parsed = compute_hashes(parsed); rows = parsed.to_dict(orient="records")
ToRecords(frame) ==
    [i \in 1..Len(frame) |-> frame[i] @@ [raw_hash |-> compute_hashes(frame)[i]]]

\* what the loop body hands to insert_transactions for each file, or the
\* exception the parser raised
Hashed(parsed) ==
    IF parsed.kind = "frame" THEN Frame(ToRecords(parsed.rows)) ELSE parsed

Parsed == [n \in FileNames |-> Hashed(ParseUpload(n))]

NULL == [k |-> "NULL", m |-> 0, e |-> 0]

\* float(r.get("amount", 0) or 0) as SQLite stores it: NaN is truthy, stays
\* NaN, and a NaN bound to a REAL column is stored as NULL
SqlAmount(a) == IF a = NaN THEN NULL ELSE a

\* sqlite3 binds str, float, int, bytes and None, and adapts the exact types
\* datetime.date and datetime.datetime; a pandas Timestamp is none of these,
\* so execute() raises ProgrammingError before the statement runs
BindFails(r) == r.date.k = "Timestamp"

\* the table row an INSERT makes of a record (id and created_at left out)
StoredRow(u, r) ==
    [user_id     |-> u,
     date        |-> DateStr(r.date),
     account     |-> r.account,
     merchant    |-> r.merchant,
     description |-> r.description,
     amount      |-> SqlAmount(r.amount),
     currency    |-> r.currency,
     category    |-> "NULL",
     subcategory |-> "NULL",
     type        |-> r.type,
     source      |-> r.source,
     raw_hash    |-> r.raw_hash]

\* a table without idx_tx_user_rawhash: no INSERT is refused
Conflicts_NoIndex(u, h, view) == FALSE

\* idx_tx_user_rawhash: the INSERT is refused (IntegrityError) when the
\* rows the connection sees hold (user_id, raw_hash) already
Conflicts(u, h, view) ==
    \E t \in BagToSet(view) : t.user_id = u /\ t.raw_hash = h

\* a store in which a writer never waits for another connection's transaction
CanWrite_NoLock(s) == TRUE

\* SQLite lets one connection write at a time: an INSERT waits while another
\* connection's transaction holds the write lock
CanWrite(s) == wlock \in {NoSession, s}

\* (a fault: the call's rows take the place of the table)
Committed_ReplaceAll(table, new) == new

\* conn.commit() in connect(): the rows the call has INSERTed join the table
Committed(table, new) == table (+) new

\* (a fault: total_ins = ins)
Accumulated_Overwrite(total, n) == n

\* total_ins += ins
Accumulated(total, n) == total + n

\* the connection sees the committed rows and its own uncommitted ones
View(s) == transactions (+) added[s]

\* two browser sessions on an empty table: the first is anna's, the second
\* anna's too or ben's
UploadInit ==
    /\ transactions = EmptyBag
    /\ wlock = NoSession
    /\ user_id \in [Sessions -> Users]
    /\ user_id["s1"] = "anna-default"
    /\ pc = [s \in Sessions |-> "idle"]
    /\ left = [s \in Sessions |-> 0]
    /\ f_name = [s \in Sessions |-> ""]
    /\ rows = [s \in Sessions |-> <<>>]
    /\ idx = [s \in Sessions |-> 0]
    /\ inserted = [s \in Sessions |-> 0]
    /\ skipped = [s \in Sessions |-> 0]
    /\ added = [s \in Sessions |-> EmptyBag]
    /\ total_ins = [s \in Sessions |-> 0]
    /\ total_skip = [s \in Sessions |-> 0]
    /\ error = [s \in Sessions |-> ""]
    /\ again = [s \in Sessions |-> FALSE]
    /\ overlapped = [s \in Sessions |-> FALSE]
    /\ last_file = [s \in Sessions |-> ""]
    /\ base = [s \in Sessions |-> 0]
    /\ RulesIdle
    /\ ParseIdle
    /\ BooksIdle
    /\ hrows = <<>>
    /\ hashes = <<>>

\* SELECT COUNT(*) FROM transactions WHERE user_id = u
StoredOf(u) ==
    BagCardinality([a \in {b \in BagToSet(transactions) : b.user_id = u} |->
                       CopiesIn(a, transactions)])

\* the locals of insert_transactions, gone when the call is over
CallOver(s) ==
    /\ rows' = [rows EXCEPT ![s] = <<>>]
    /\ idx' = [idx EXCEPT ![s] = 0]
    /\ inserted' = [inserted EXCEPT ![s] = 0]
    /\ skipped' = [skipped EXCEPT ![s] = 0]
    /\ added' = [added EXCEPT ![s] = EmptyBag]
    /\ again' = [again EXCEPT ![s] = FALSE]
    /\ overlapped' = [overlapped EXCEPT ![s] = FALSE]

\* n files dropped on the uploader: the script runs the Upload page.  Which
\* files they are is drawn as the loop reaches them (ReadFile).
StartUpload(s, n) ==
    /\ pc[s] = "idle"
    /\ left' = [left EXCEPT ![s] = n]
    /\ total_ins' = [total_ins EXCEPT ![s] = 0]
    /\ total_skip' = [total_skip EXCEPT ![s] = 0]
    /\ pc' = [pc EXCEPT ![s] = "loop"]
    /\ base' = [base EXCEPT ![s] = StoredOf(user_id[s])]
    /\ UNCHANGED <<user_id, f_name, rows, idx, inserted, skipped, added, error, again,
                   overlapped, last_file, storeVars, hashVars, ruleVars,
                   parseVars, bookVars>>

\* the loop body up to the first INSERT: parse, compute_hashes, to_dict and
\* the entry of insert_transactions (an empty list returns (0, 0) at once,
\* any other opens a connection)
ReadFile(s, n) ==
    /\ pc[s] = "loop"
    /\ left[s] > 0
    /\ f_name' = [f_name EXCEPT ![s] = n]
    /\ LET parsed == Parsed[n]
           others == {t \in Sessions \ {s} : pc[t] = "insert" /\ user_id[t] = user_id[s]}
       IN  IF parsed.kind /= "frame"
           THEN /\ pc' = [pc EXCEPT ![s] = "raised"]
                /\ error' = [error EXCEPT ![s] = parsed.kind]
                /\ UNCHANGED <<rows, idx, inserted, skipped, added, again, overlapped>>
           ELSE /\ pc' = [pc EXCEPT ![s] = IF parsed.rows = <<>> THEN "returned" ELSE "insert"]
                /\ rows' = [rows EXCEPT ![s] = parsed.rows]
                /\ idx' = [idx EXCEPT ![s] = 1]
                /\ inserted' = [inserted EXCEPT ![s] = 0]
                /\ skipped' = [skipped EXCEPT ![s] = 0]
                /\ added' = [added EXCEPT ![s] = EmptyBag]
                /\ again' = [again EXCEPT ![s] = (last_file[s] = n)]
                /\ overlapped' = [t \in Sessions |->
                                    IF parsed.rows = <<>> THEN overlapped[t]
                                    ELSE IF t = s THEN others /= {}
                                    ELSE overlapped[t] \/ t \in others]
                /\ error' = error
    /\ UNCHANGED <<base, user_id, left, total_ins, total_skip, last_file,
                   storeVars, hashVars, ruleVars,
                   parseVars, bookVars>>

\* one turn of the insert loop for a record that binds: the INSERT takes the
\* write lock; a refused INSERT is caught and counted
InsertRow(s) ==
    /\ pc[s] = "insert"
    /\ idx[s] <= Len(rows[s])
    /\ ~BindFails(rows[s][idx[s]])
    /\ CanWrite(s)
    /\ LET r == rows[s][idx[s]]
       IN  IF Conflicts(user_id[s], r.raw_hash, View(s))
           THEN /\ skipped' = [skipped EXCEPT ![s] = @ + 1]
                /\ UNCHANGED <<inserted, added>>
           ELSE /\ inserted' = [inserted EXCEPT ![s] = @ + 1]
                /\ added' = [added EXCEPT ![s] = @ (+) SetToBag({StoredRow(user_id[s], r)})]
                /\ UNCHANGED skipped
    /\ wlock' = s
    /\ idx' = [idx EXCEPT ![s] = @ + 1]
    /\ UNCHANGED <<base, transactions, user_id, pc, left, f_name, rows, total_ins, total_skip,
                   error, again, overlapped, last_file, hashVars, ruleVars,
                   parseVars, bookVars>>

\* one turn of the insert loop for a record that does not bind: the error is
\* not an IntegrityError, so it leaves insert_transactions through connect(),
\* whose finally clause commits what the call had inserted
BindError(s) ==
    /\ pc[s] = "insert"
    /\ idx[s] <= Len(rows[s])
    /\ BindFails(rows[s][idx[s]])
    /\ transactions' = Committed(transactions, added[s])
    /\ wlock' = IF wlock = s THEN NoSession ELSE wlock
    /\ pc' = [pc EXCEPT ![s] = "raised"]
    /\ error' = [error EXCEPT ![s] = "sqlite3.ProgrammingError"]
    /\ last_file' = [last_file EXCEPT ![s] = f_name[s]]
    /\ UNCHANGED <<base, user_id, left, f_name, rows, idx, inserted, skipped, added, total_ins,
                   total_skip, again, overlapped, hashVars, ruleVars,
                   parseVars, bookVars>>

\* the loop is through: connect() commits and closes, the counts are returned
Commit(s) ==
    /\ pc[s] = "insert"
    /\ idx[s] > Len(rows[s])
    /\ transactions' = Committed(transactions, added[s])
    /\ wlock' = IF wlock = s THEN NoSession ELSE wlock
    /\ pc' = [pc EXCEPT ![s] = "returned"]
    /\ last_file' = [last_file EXCEPT ![s] = f_name[s]]
    /\ UNCHANGED <<base, user_id, left, f_name, rows, idx, inserted, skipped, added, total_ins,
                   total_skip, error, again, overlapped, hashVars, ruleVars,
                   parseVars, bookVars>>

\* total_ins += ins; total_skip += skip; on to the next file
Accumulate(s) ==
    /\ pc[s] = "returned"
    /\ total_ins' = [total_ins EXCEPT ![s] = Accumulated(@, inserted[s])]
    /\ total_skip' = [total_skip EXCEPT ![s] = Accumulated(@, skipped[s])]
    /\ left' = [left EXCEPT ![s] = @ - 1]
    /\ f_name' = [f_name EXCEPT ![s] = ""]
    /\ pc' = [pc EXCEPT ![s] = "loop"]
    /\ CallOver(s)
    /\ UNCHANGED <<base, user_id, error, last_file, storeVars, hashVars, ruleVars,
                   parseVars, bookVars>>

\* st.success(...): the run ends
Finish(s) ==
    /\ pc[s] = "loop"
    /\ left[s] = 0
    /\ pc' = [pc EXCEPT ![s] = "idle"]
    /\ total_ins' = [total_ins EXCEPT ![s] = 0]
    /\ total_skip' = [total_skip EXCEPT ![s] = 0]
    /\ UNCHANGED <<base, user_id, left, f_name, rows, idx, inserted, skipped, added, error,
                   again, overlapped, last_file, storeVars, hashVars, ruleVars,
                   parseVars, bookVars>>

\* the run ended in an exception; the page shows the traceback until the
\* user acts again
Rerun(s) ==
    /\ pc[s] = "raised"
    /\ pc' = [pc EXCEPT ![s] = "idle"]
    /\ error' = [error EXCEPT ![s] = ""]
    /\ left' = [left EXCEPT ![s] = 0]
    /\ f_name' = [f_name EXCEPT ![s] = ""]
    /\ total_ins' = [total_ins EXCEPT ![s] = 0]
    /\ total_skip' = [total_skip EXCEPT ![s] = 0]
    /\ CallOver(s)
    /\ UNCHANGED <<base, user_id, last_file, storeVars, hashVars, ruleVars,
                   parseVars, bookVars>>

Next ==
    \/ \E s \in Sessions, n \in 1..MaxFiles : StartUpload(s, n)
    \/ \E s \in Sessions, n \in FileNames : ReadFile(s, n)
    \/ \E s \in Sessions : InsertRow(s)
    \/ \E s \in Sessions : BindError(s)
    \/ \E s \in Sessions : Commit(s)
    \/ \E s \in Sessions : Accumulate(s)
    \/ \E s \in Sessions : Finish(s)
    \/ \E s \in Sessions : Rerun(s)

Spec == UploadInit /\ [][Next]_vars

(***************************************************************************)
(* Properties of the Upload page and the transactions table                *)
(***************************************************************************)
\* the rows of a bag that carry the key (user_id, raw_hash) = (u, h)
Matching(bag, u, h) == {a \in BagToSet(bag) : a.user_id = u /\ a.raw_hash = h}

\* no key occurs on two rows of the bag
UniquePerUser(bag) ==
    \A a \in BagToSet(bag) :
        /\ CopiesIn(a, bag) = 1
        /\ Matching(bag, a.user_id, a.raw_hash) = {a}

\* exactly one row of the table carries the key
OneRow(u, h) ==
    \E a \in BagToSet(transactions) :
        Matching(transactions, u, h) = {a} /\ CopiesIn(a, transactions) = 1

Fingerprints(s) == {rows[s][i].raw_hash : i \in 1..Len(rows[s])}
Occurrences(s, h) == Cardinality({i \in 1..Len(rows[s]) : rows[s][i].raw_hash = h})
InsertedBy(s, h) == \E a \in BagToSet(added[s]) : a.raw_hash = h
Binds(s) == \A i \in 1..Len(rows[s]) : ~BindFails(rows[s][i])

\* C1: after any sequence of insert_transactions calls the table never holds
\* two rows with the same (user_id, raw_hash), neither committed nor within a
\* call's open transaction; every record the loop has passed is in the
\* table or the open transaction, counted once as inserted (a new row) or as
\* skipped (no row added); the call's counts add up when it returns, and
\* an error that ended a call was not about a fingerprint already stored.
C1_UniqueFingerprintPerUser ==
    /\ UniquePerUser(transactions)
    /\ \A s \in Sessions :
        /\ pc[s] = "insert" =>
            /\ UniquePerUser(transactions (+) added[s])
            /\ inserted[s] = BagCardinality(added[s])
            /\ inserted[s] + skipped[s] = idx[s] - 1
            /\ \A i \in 1..(idx[s] - 1) :
                 Matching(transactions (+) added[s], user_id[s], rows[s][i].raw_hash) /= {}
        /\ pc[s] = "returned" =>
            /\ inserted[s] = BagCardinality(added[s])
            /\ inserted[s] + skipped[s] = Len(rows[s])
            /\ \A h \in Fingerprints(s) : OneRow(user_id[s], h)
            /\ \A h \in Fingerprints(s) :
                 ~InsertedBy(s, h) => skipped[s] >= Occurrences(s, h)
        /\ (pc[s] = "raised" /\ rows[s] /= <<>>) =>
            Matching(transactions, user_id[s], rows[s][idx[s]].raw_hash) = {}

\* a call returned with a repeated row skipped, and the same fingerprint is
\* stored once for each of two users
C1_Witness ==
    \E s \in Sessions :
        /\ pc[s] = "returned" /\ inserted[s] = 2 /\ skipped[s] = 1
        /\ \E a, b \in BagToSet(transactions) :
             a.user_id /= b.user_id /\ a.raw_hash = b.raw_hash

\* C2: when a session imports the file it imported last once more, the
\* second pass returns, has inserted no row, has skipped every row and has
\* added nothing to the table
C2_ReimportSkipsEveryRow ==
    \A s \in Sessions :
        (again[s] /\ pc[s] \in {"returned", "raised"}) =>
            /\ pc[s] = "returned"
            /\ inserted[s] = 0
            /\ skipped[s] = Len(rows[s])
            /\ added[s] = EmptyBag

\* the part of C2 that holds: a second pass whose records bind
C2_ReimportOfBoundRecords ==
    \A s \in Sessions :
        (again[s] /\ Binds(s) /\ pc[s] \in {"returned", "raised"}) =>
            /\ pc[s] = "returned"
            /\ inserted[s] = 0
            /\ skipped[s] = Len(rows[s])
            /\ added[s] = EmptyBag

C2_ReimportOfBoundRecords_Witness ==
    \E s \in Sessions : again[s] /\ pc[s] = "returned" /\ skipped[s] = 3

C9_NoUnparsedAmountReachesStore ==
    /\ \A s \in Sessions : \A i \in 1..Len(rows[s]) :
         rows[s][i].amount \notin {NaN, NoneVal}
    /\ \A a \in BagToSet(transactions) : a.amount /= NULL

\* C10: a date that cannot be parsed never makes a parser raise: no script
\* run ends in a ParserError
C10_BadDateLosesOnlyItsRow ==
    \A s \in Sessions : error[s] /= "ParserError"

\* the part of C9 and C10 that holds: the PDF table path drops the row with
\* the amount "abc" and the row with the date "Summe" and returns the third
PdfPathDropsBadRows ==
    /\ Len(Parsed["sparkasse_q1.pdf"].rows) = 1
    /\ Parsed["sparkasse_q1.pdf"].rows[1].description = "REWE SAGT DANKE"

\* no other browser session works on the user of session s
Alone(s) == \A t \in Sessions \ {s} : user_id[t] /= user_id[s]

\* every row of bag a is in bag b, as often at least
AllIn(a, b) == \A x \in BagToSet(a) : CopiesIn(x, a) <= CopiesIn(x, b)

\* C18: a call that returns gives inserted + skipped = the number of rows
\* passed in, inserted being the number of rows the call added to the table;
\* while a session's upload runs file after file (no other session working
\* on the same user), the rows the user has gained since the upload began
\* are the accumulated total_ins, plus those of the call that has returned
\* and is not accumulated yet, and total_skip is the rest of the rows passed.
C18_CountsAndTotals ==
    \A s \in Sessions :
        /\ pc[s] = "returned" =>
            /\ inserted[s] + skipped[s] = Len(rows[s])
            /\ inserted[s] = BagCardinality(added[s])
            /\ AllIn(added[s], transactions)
        /\ (Alone(s) /\ pc[s] \in {"loop", "insert"}) =>
            StoredOf(user_id[s]) - base[s] = total_ins[s]
        /\ (Alone(s) /\ pc[s] = "returned") =>
            StoredOf(user_id[s]) - base[s] = total_ins[s] + inserted[s]

\* an upload of two files is through: both added a row, the second skipped
\* the rows the first had stored, and the user has gained total_ins rows
C18_Witness ==
    \E s \in Sessions :
        /\ Alone(s)
        /\ pc[s] = "loop" /\ left[s] = 0
        /\ total_ins[s] = 2 /\ total_skip[s] = 2
        /\ StoredOf(user_id[s]) = base[s] + 2

(***************************************************************************)
(* SpecStore: one browser session on every page that writes to the         *)
(* database (Upload, Categorize, Budgets & Income, Settings).              *)
(***************************************************************************)
MaxIncomes == 1

USER == user_id["s1"]
PageIdle == pc["s1"] = "idle"

\* the row of the table smallest in ORDER BY date ASC
FirstByDate(bag) ==
    CHOOSE a \in BagToSet(bag) :
        \A b \in BagToSet(bag) : ~DateBefore(b.date, a.date)

RECURSIVE OrderByDate(_)
OrderByDate(bag) ==
    IF bag = EmptyBag THEN <<>>
    ELSE <<FirstByDate(bag)>> \o OrderByDate(bag (-) SetToBag({FirstByDate(bag)}))

\* the rows of the table that satisfy the WHERE clause of list_transactions
Selected(u, year, month) ==
    [a \in {b \in BagToSet(transactions) :
               /\ b.user_id = u
               /\ SubSeq(b.date, 1, 4) = Pad(year, 4)
               /\ SubSeq(b.date, 6, 7) = Pad(month, 2)} |-> CopiesIn(a, transactions)]

\* the ten columns of the SELECT
Listed(a) ==
    [date |-> a.date, account |-> a.account, merchant |-> a.merchant,
     description |-> a.description, amount |-> a.amount, currency |-> a.currency,
     category |-> a.category, subcategory |-> a.subcategory, type |-> a.type,
     source |-> a.source]

list_transactions(u, year, month) ==
    [i \in 1..BagCardinality(Selected(u, year, month)) |->
        Listed(OrderByDate(Selected(u, year, month))[i])]

\* the Categorize page on the stored rows of March 2024: load_month,
\* list_rules, apply_rules; the frame it shows is not written back
CategorizeStored ==
    /\ PageIdle
    /\ month_df' = list_transactions(USER, 2024, 3)
    /\ IF list_transactions(USER, 2024, 3) = <<>>
       THEN UNCHANGED <<arg_rules, result>>
       ELSE /\ arg_rules' = list_rules(rules)
            /\ result' = apply_rules(list_transactions(USER, 2024, 3), list_rules(rules))
    /\ UNCHANGED <<rules, hashVars, storeVars, uploadVars, parseVars, bookVars>>

\* "Save Rule" with the slider left at its default; the form is shown when
\* the month has transactions
StoreRuleForms == {<<"REWE", "merchant", "Dining & Cafes">>}
SaveRule ==
    /\ PageIdle
    /\ list_transactions(USER, 2024, 3) /= <<>>
    /\ \E form \in StoreRuleForms : add_rule(form[1], form[2], form[3], "", 100)

BudgetKey(b) == <<b.user_id, b.year, b.month, b.category>>

\* db.upsert_budget: UPDATE the row of the key, or INSERT it
upsert_budget(u, year, month, category, amount) ==
    /\ budgets' = {b \in budgets : BudgetKey(b) /= <<u, year, month, category>>}
                  \cup {[user_id |-> u, year |-> year, month |-> month,
                         category |-> category, amount |-> amount]}
    /\ UNCHANGED <<incomes, hashVars, ruleVars, storeVars, uploadVars, parseVars>>

UpsertBudget ==
    /\ PageIdle
    /\ \E amount \in {100, 250} : upsert_budget(USER, 2024, 3, "Groceries", amount)

\* db.add_income
add_income(u, year, month, source, amount) ==
    /\ Len(incomes) < MaxIncomes
    /\ incomes' = Append(incomes, [user_id |-> u, year |-> year, month |-> month,
                                   source |-> source, amount |-> amount])
    /\ UNCHANGED <<budgets, hashVars, ruleVars, storeVars, uploadVars, parseVars>>

AddIncome ==
    /\ PageIdle
    /\ add_income(USER, 2024, 3, "Salary", 2500)

\* database files a user may restore: an empty database, and one in which
\* the REWE transaction was stored with another amount and merchant
Database(tx, r, b, i) == [transactions |-> tx, rules |-> r, budgets |-> b, incomes |-> i]
BackupFiles ==
    {Database(EmptyBag, <<>>, {}, <<>>),
     Database(SetToBag({[StoredRow("anna-default", Parsed["sparkasse_q1.pdf"].rows[1])
                            EXCEPT !.amount = Float(0 - 99, 0), !.merchant = "Rewe"]}),
              <<>>, {}, <<>>)}

\* db.import_backup: the database file is overwritten with the uploaded one
import_backup(content) ==
    /\ transactions' = content.transactions
    /\ rules' = content.rules
    /\ budgets' = content.budgets
    /\ incomes' = content.incomes
    /\ UNCHANGED <<wlock, arg_rules, month_df, result, hashVars, uploadVars, parseVars>>

ImportBackup ==
    /\ PageIdle
    /\ \E content \in BackupFiles : import_backup(content)

StoreInit == UploadInit /\ user_id["s2"] = "ben-default"

StoreNext ==
    \/ \E n \in 1..MaxFiles : StartUpload("s1", n)
    \/ \E n \in FileNames : ReadFile("s1", n)
    \/ InsertRow("s1")
    \/ BindError("s1")
    \/ Commit("s1")
    \/ Accumulate("s1")
    \/ Finish("s1")
    \/ Rerun("s1")
    \/ CategorizeStored
    \/ SaveRule
    \/ UpsertBudget
    \/ AddIncome
    \/ ImportBackup

SpecStore == StoreInit /\ [][StoreNext]_vars

\* the fields of a stored row that the claim protects
Kept(a) ==
    [user_id |-> a.user_id, date |-> a.date, account |-> a.account,
     merchant |-> a.merchant, description |-> a.description, amount |-> a.amount,
     currency |-> a.currency, type |-> a.type, source |-> a.source,
     raw_hash |-> a.raw_hash]

\* how many rows of the table carry these protected fields
RowsWith(bag, k) ==
    BagCardinality([a \in {b \in BagToSet(bag) : Kept(b) = k} |-> CopiesIn(a, bag)])

\* every stored row is still stored, raw_hash and fields as they were
RowsKept ==
    \A a \in BagToSet(transactions) :
        RowsWith(transactions', Kept(a)) >= RowsWith(transactions, Kept(a))

\* C17: no step of insert_transactions (with the same or other rows), of the
\* Categorize page (list_transactions, list_rules, apply_rules), of
\* add_rule, upsert_budget or add_income changes the raw_hash or the date,
\* account, merchant, description, amount, currency, type or source of a
\* stored row; only import_backup may.
C17_StoredRowsKeepTheirFields == [][ImportBackup \/ RowsKept]_vars

\* rows are stored, and since then the file was imported once more, a rule
\* and a budget and an income were saved and the rows were categorized
C17_Witness ==
    /\ pc["s1"] = "returned" /\ again["s1"] /\ skipped["s1"] = 3
    /\ BagCardinality(transactions) = 2
    /\ rules /= <<>> /\ budgets /= {} /\ incomes /= <<>>
    /\ result.kind = "return" /\ Len(result.rows) = 2
====
